---- MODULE Spec2Model ----
(***************************************************************************)
(* State-machine model of CarbonRepo.                                      *)
(*                                                                         *)
(*  - batch verification (src/generate2.py): main fans out one             *)
(*    process_repo task per config entry, admitted by asyncio.Semaphore(8).*)
(*    Specification: SpecBatch.                                            *)
(*  - the config manager (src/configmanager.py): reconciliation pass,      *)
(*    view-diff, single-item update and update-all as asyncio coroutines   *)
(*    interleaved at their await points.  Specification: Spec.             *)
(***************************************************************************)
EXTENDS Integers, Sequences, FiniteSets, TLC

None == "None"

(***************************************************************************)
(* Part I.  Batch verification, src/generate2.py                           *)
(***************************************************************************)

\* number of entries of config.json in the modelled run
NumItems == 9

\* sema = asyncio.Semaphore(8)
SemaCapacity == 8

\* connector = aiohttp.TCPConnector(limit=16)
PoolLimit == 16

\* assets of the release whose downloads fill the connector
NumPooled == 17

\* entries of config.json in a run that verifies a short config
NumVerified == 2

Items == 1..NumItems

\* A request is <<kind, k>>; k is the asset index for kind "asset", else 0.
Req(kind, k) == <<kind, k>>

VARIABLES
    upstream,        \* what GitHub answers for each item (fixed during a run)
    expected,        \* mod[repo]["assets"]: asset name -> recorded digest
    mainpc,          \* position of main: "init", "running", "exited"
    sema,            \* Semaphore._value
    waiters,         \* Semaphore._waiters, FIFO
    pc,              \* position of each process_repo task
    inflight,        \* the requests of each item that are on the wire
    downloads,       \* process_repo's downloads, by asset index
    acquired,        \* how often the item's acquire has returned
    released,        \* how often the item has called sema.release()
    ret,             \* what process_repo returned: [json, error, mismatched]
    processed_count, \* main's counters
    mismatch_count,
    error_found,
    exit_code,
    jsons,           \* main's list of results, in the order the tasks completed
    queued           \* the requests that wait for a connection of the connector, FIFO

bvars == <<upstream, expected, mainpc, sema, waiters, pc, inflight, downloads,
           acquired, released, ret, processed_count, mismatch_count,
           error_found, exit_code, jsons, queued>>

VARIABLES
    github,          \* what GitHub answers for each coordinate (fixed during a run)
    config,          \* self.config: the entries, [repo, comment, assets]
    disk,            \* the content of config.json
    outdated_repos,  \* self.outdated_repos: coordinate -> record
    pass,            \* the _check_updates_worker coroutines and their locals
    passlog,         \* per pass: what it read and decided for each item
    passfinal,       \* per pass: outdated_repos and the store when it finished
    ui,              \* the handler the message pump is running (view-diff)
    upd,             \* the _update_repo_worker coroutine and its locals
    ua,              \* the _update_all_worker coroutine and its locals
    ops,             \* operations started by the user so far
    epoch,           \* number of passes started so far
    budget           \* operations the user will start at most

mvars == <<github, config, disk, outdated_repos, pass, passlog, passfinal, ui,
           upd, ua, ops, epoch, budget>>

VARIABLES
    resp,            \* the response to the download: its status and unread body
    sha256,          \* the hashlib accumulator of fetch_stream_hash
    hashing,         \* position of fetch_stream_hash, the chunks it got, its result
    fetching         \* position of fetch_latest_release_assets and its requests

hvars == <<resp, sha256, hashing, fetching>>

vars == <<bvars, mvars, hvars>>

\* ---- the inputs ---------------------------------------------------------

Asset(name, ok, digest, count) ==
    [name |-> name, ok |-> ok, digest |-> digest, download_count |-> count]

\* a repository whose metadata request is answered with a non-200 status
GoneWorld ==
    [repo |-> FALSE, latest |-> FALSE, all |-> "fail", assets |-> <<>>,
     contrib |-> FALSE, social |-> "none", stars |-> 0]

\* a position of the index space that config.json has no entry for
NoEntry ==
    [repo |-> FALSE, latest |-> FALSE, all |-> "none", assets |-> <<>>,
     contrib |-> FALSE, social |-> "none", stars |-> 0]

\* repositories that answer; they differ in where a request fails
LiveWorlds ==
    { [repo |-> TRUE, latest |-> TRUE, all |-> "fail",
       assets |-> <<Asset("mod.dll", TRUE, "d2", 2), Asset("mod.pdb", TRUE, "d3", 1)>>,
       contrib |-> TRUE, social |-> "ok", stars |-> 5],
      [repo |-> TRUE, latest |-> TRUE, all |-> "fail",
       assets |-> <<Asset("mod.dll", TRUE, "d1", 2), Asset("mod.pdb", FALSE, "d3", 1)>>,
       contrib |-> TRUE, social |-> "ok", stars |-> 3],
      [repo |-> TRUE, latest |-> TRUE, all |-> "fail",
       assets |-> <<Asset("mod.dll", TRUE, "d1", 2)>>,
       contrib |-> FALSE, social |-> "ok", stars |-> 7],
      [repo |-> TRUE, latest |-> FALSE, all |-> "list",
       assets |-> <<Asset("mod.dll", FALSE, "d1", 0)>>,
       contrib |-> TRUE, social |-> "raise", stars |-> 1],
      [repo |-> TRUE, latest |-> FALSE, all |-> "empty", assets |-> <<>>,
       contrib |-> TRUE, social |-> "none", stars |-> 4],
      [repo |-> TRUE, latest |-> FALSE, all |-> "fail", assets |-> <<>>,
       contrib |-> TRUE, social |-> "ok", stars |-> 2] }

\* mod[repo_name]["assets"] of every entry: mod.dll has a recorded digest,
\* mod.pdb has none
ExpectedOf == [n \in {"mod.dll", "mod.pdb"} |-> IF n = "mod.dll" THEN "d1" ELSE None]

\* ---- asyncio.Semaphore --------------------------------------------------

\* Semaphore.acquire for task i on s = [value, waiters, granted]
SemAcquire(s, i) ==
    IF s.value > 0
    THEN [s EXCEPT !.value = s.value - 1, !.granted = s.granted \cup {i}]
    ELSE [s EXCEPT !.waiters = Append(s.waiters, i)]

\* a release that returns the unit and wakes nobody
SemReleaseUnwoken(s) ==
    [value |-> s.value + 1, waiters |-> s.waiters, woken |-> 0]

\* a release that forgets the unit when nobody waits
SemReleaseLost(s) ==
    IF s.waiters # <<>>
    THEN [value |-> s.value, waiters |-> Tail(s.waiters), woken |-> Head(s.waiters)]
    ELSE [value |-> s.value, waiters |-> s.waiters, woken |-> 0]

\* a release that also wakes a waiter without taking the unit back
SemReleaseTwice(s) ==
    IF s.waiters # <<>>
    THEN [value |-> s.value + 1, waiters |-> Tail(s.waiters), woken |-> Head(s.waiters)]
    ELSE [value |-> s.value + 1, waiters |-> s.waiters, woken |-> 0]

\* Semaphore.release: _value += 1, then _wake_up_next hands the unit to the
\* first waiter (_value -= 1), whose acquire then returns
SemRelease(s) ==
    IF s.waiters # <<>>
    THEN [value |-> s.value, waiters |-> Tail(s.waiters), woken |-> Head(s.waiters)]
    ELSE [value |-> s.value + 1, waiters |-> s.waiters, woken |-> 0]

\* ---- aiohttp.TCPConnector -------------------------------------------------

\* the requests that were issued and are not answered yet, each with its item
InFlight == UNION { { <<i, r>> : r \in inflight[i] } : i \in Items }

Range(q) == { q[n] : n \in DOMAIN q }

\* request r of item i holds a connection: only such a request can be answered
OnWire(i, r) == r \in inflight[i] /\ <<i, r>> \notin Range(queued)

\* the order in which the requests issued in one step ask for a connection:
\* the tasks run in the order they were created
Before(x, y) ==
    \/ x[1] < y[1]
    \/ /\ x[1] = y[1]
       /\ \/ x[2][2] < y[2][2]
          \/ x[2][1] = "contrib" /\ y[2][1] = "social"

InOrder(S) ==
    [n \in 1..Cardinality(S) |->
        CHOOSE x \in S : Cardinality({ y \in S : Before(y, x) }) = n - 1]

\* a connector that never hands a released connection to a waiting request
AdmitArrivalsOnly(q, before, after) ==
    LET holding == (before \cap after) \ Range(q)
        arrivals == InOrder(after \ before)
        free == PoolLimit - Cardinality(holding)
        n == IF free < Len(arrivals) THEN free ELSE Len(arrivals)
    IN  SelectSeq(q, LAMBDA x : x \in after) \o SubSeq(arrivals, n + 1, Len(arrivals))

\* the connector over one step: the answered requests release their
\* connections, the waiting requests and then the new ones take the free
\* connections in order, and the rest waits
Admit(q, before, after) ==
    LET holding == (before \cap after) \ Range(q)
        pending == SelectSeq(q, LAMBDA x : x \in after) \o InOrder(after \ before)
        free == PoolLimit - Cardinality(holding)
        n == IF free < Len(pending) THEN free ELSE Len(pending)
    IN  SubSeq(pending, n + 1, Len(pending))

PoolStep == queued' = Admit(queued, InFlight, InFlight')

RECURSIVE StartTasks(_, _)
\* the first step of every task, in the order the tasks were created
StartTasks(s, k) ==
    IF k > NumItems THEN s
    ELSE IF upstream[k] = NoEntry THEN StartTasks(s, k + 1)
    ELSE StartTasks(SemAcquire(s, k), k + 1)

\* ---- process_repo -------------------------------------------------------

\* a gather that also starts the contributors and preview fetches
AssetReqsWithExtras(i) ==
    { Req("asset", k) : k \in 1..Len(upstream[i].assets) }
        \cup {Req("contrib", 0), Req("social", 0)}

\* a gather over the first asset only
AssetReqsFirstOnly(i) == {Req("asset", 1)}

\* lines 158-164: one download per asset of the latest release
AssetReqs(i) == { Req("asset", k) : k \in 1..Len(upstream[i].assets) }

\* a download that compares the digests also when none is recorded
DownloadResultAlwaysCompared(asset, expected_hash) ==
    IF asset.ok
    THEN [name |-> asset.name, currentHash |-> asset.digest,
          validHash |-> expected_hash,
          hashMatch |-> IF expected_hash = asset.digest THEN "True" ELSE "False",
          error |-> FALSE]
    ELSE [name |-> asset.name, currentHash |-> None,
          validHash |-> expected_hash, hashMatch |-> "False", error |-> TRUE]

\* download_asset_and_hash(session, asset, expected_hash)
DownloadResult(asset, expected_hash) ==
    IF asset.ok
    THEN [name |-> asset.name, currentHash |-> asset.digest,
          validHash |-> expected_hash,
          hashMatch |-> IF expected_hash # None
                        THEN (IF expected_hash = asset.digest THEN "True" ELSE "False")
                        ELSE "None",
          error |-> FALSE]
    ELSE [name |-> asset.name, currentHash |-> None,
          validHash |-> expected_hash, hashMatch |-> "False", error |-> TRUE]

\* a validation that finds nothing
MismatchedNever(dl, exp) == {}

\* lines 178-189: the names of the downloads whose digest is not the recorded one
Mismatched(dl, exp) ==
    { k \in DOMAIN dl : exp[dl[k].name] # None /\ dl[k].currentHash # exp[dl[k].name] }

NoReturn == [json |-> FALSE, error |-> FALSE, mismatched |-> 0]

RECURSIVE DownloadCounts(_)
\* lines 166-171: the download counts of the assets, added up
DownloadCounts(assets) ==
    IF assets = <<>> THEN 0 ELSE Head(assets).download_count + DownloadCounts(Tail(assets))

\* lines 195-206: the result of an item, with what the summary adds up
Result(i, mism) ==
    [full_name |-> i, stars |-> upstream[i].stars,
     total_downloads |-> IF upstream[i].latest \/ upstream[i].all = "list"
                         THEN DownloadCounts(upstream[i].assets) ELSE 0,
     mismatched_hashes |-> mism]

\* a total that takes the first result only
TotalOfFirst(js, field) == IF js = <<>> THEN 0 ELSE Head(js)[field]

RECURSIVE SumField(_, _)
SumField(js, field) ==
    IF js = <<>> THEN 0 ELSE Head(js)[field] + SumField(Tail(js), field)

\* lines 252-253: sum(r[field] for r in jsons)
Total(js, field) == SumField(js, field)

\* the finally clause, the return, and main's loop body for the returned pair
Exit(i, json, mism, orphans) ==
    LET s == SemRelease([value |-> sema, waiters |-> waiters])
        error == (~json) \/ mism > 0
    IN  /\ sema' = s.value
        /\ waiters' = s.waiters
        /\ pc' = [j \in Items |-> IF j = i THEN "done"
                                  ELSE IF j = s.woken THEN "repo" ELSE pc[j]]
        /\ inflight' = [j \in Items |-> IF j = i THEN orphans
                                        ELSE IF j = s.woken THEN {Req("repo", 0)}
                                        ELSE inflight[j]]
        /\ acquired' = [j \in Items |-> IF j = s.woken THEN acquired[j] + 1 ELSE acquired[j]]
        /\ released' = [released EXCEPT ![i] = released[i] + 1]
        /\ ret' = [ret EXCEPT ![i] = [json |-> json, error |-> error, mismatched |-> mism]]
        /\ processed_count' = IF json THEN processed_count + 1 ELSE processed_count
        /\ mismatch_count' = IF json THEN mismatch_count + mism ELSE mismatch_count
        /\ error_found' = (error_found \/ error)
        /\ jsons' = IF json THEN Append(jsons, Result(i, mism)) ELSE jsons

\* main, lines 227-232: the semaphore is created and every task takes its
\* first step: "if sema: await sema.acquire()", then the metadata request
StartAll ==
    /\ mainpc = "init"
    /\ LET s == StartTasks([value |-> sema, waiters |-> <<>>, granted |-> {}], 1)
       IN  /\ sema' = s.value
           /\ waiters' = s.waiters
           /\ pc' = [j \in Items |-> IF j \in s.granted THEN "repo"
                                     ELSE IF upstream[j] = NoEntry THEN "none"
                                     ELSE "wait"]
           /\ inflight' = [j \in Items |-> IF j \in s.granted THEN {Req("repo", 0)} ELSE {}]
           /\ acquired' = [j \in Items |-> IF j \in s.granted THEN 1 ELSE 0]
    /\ mainpc' = "running"
    /\ UNCHANGED <<upstream, expected, downloads, released, ret, processed_count,
                   mismatch_count, error_found, jsons, exit_code, mvars, hvars>>
    /\ PoolStep

\* the stage after the releases are known: the asset downloads, or, without
\* assets, the contributors and preview fetches
AfterReleases(i, hasRelease) ==
    IF hasRelease /\ upstream[i].assets # <<>>
    THEN /\ pc' = [pc EXCEPT ![i] = "assets"]
         /\ inflight' = [inflight EXCEPT ![i] = AssetReqs(i)]
    ELSE /\ pc' = [pc EXCEPT ![i] = "extras"]
         /\ inflight' = [inflight EXCEPT ![i] = {Req("contrib", 0), Req("social", 0)}]

\* line 148: the answer to get_repo_data
RepoResp(i) ==
    /\ pc[i] = "repo"
    /\ OnWire(i, Req("repo", 0))
    /\ IF upstream[i].repo
       THEN /\ pc' = [pc EXCEPT ![i] = "latest"]
            /\ inflight' = [inflight EXCEPT ![i] = {Req("latest", 0)}]
            /\ UNCHANGED <<sema, waiters, acquired, released, ret, processed_count,
                           mismatch_count, error_found, jsons>>
       ELSE Exit(i, FALSE, 0, {})
    /\ UNCHANGED <<upstream, expected, mainpc, downloads, exit_code, mvars, hvars>>
    /\ PoolStep

\* lines 100-104: the answer to releases/latest
LatestResp(i) ==
    /\ pc[i] = "latest"
    /\ OnWire(i, Req("latest", 0))
    /\ IF upstream[i].latest
       THEN AfterReleases(i, TRUE)
       ELSE /\ pc' = [pc EXCEPT ![i] = "all"]
            /\ inflight' = [inflight EXCEPT ![i] = {Req("all", 0)}]
    /\ UNCHANGED <<upstream, expected, mainpc, sema, waiters, downloads, acquired,
                   released, ret, processed_count, mismatch_count, error_found,
                   jsons, exit_code, mvars, hvars>>
    /\ PoolStep

\* lines 105-109: the answer to the fallback request for all releases
AllResp(i) ==
    /\ pc[i] = "all"
    /\ OnWire(i, Req("all", 0))
    /\ IF upstream[i].all = "fail"
       THEN Exit(i, FALSE, 0, {})
       ELSE /\ AfterReleases(i, upstream[i].all = "list")
            /\ UNCHANGED <<sema, waiters, acquired, released, ret, processed_count,
                           mismatch_count, error_found, jsons>>
    /\ UNCHANGED <<upstream, expected, mainpc, downloads, exit_code, mvars, hvars>>
    /\ PoolStep

\* lines 158-165: one download_asset_and_hash of the gather finishes; the
\* gather returns when the last one has
AssetResp(i, k) ==
    /\ pc[i] = "assets"
    /\ OnWire(i, Req("asset", k))
    /\ LET a == upstream[i].assets[k]
           r == DownloadResult(a, expected[i][a.name])
           rest == inflight[i] \ {Req("asset", k)}
       IN  /\ downloads' = [downloads EXCEPT ![i] =
                               [x \in DOMAIN downloads[i] \cup {k} |->
                                   IF x = k THEN r ELSE downloads[i][x]]]
           /\ IF rest = {}
              THEN /\ pc' = [pc EXCEPT ![i] = "extras"]
                   /\ inflight' = [inflight EXCEPT ![i] =
                                      {Req("contrib", 0), Req("social", 0)}]
              ELSE /\ inflight' = [inflight EXCEPT ![i] = rest]
                   /\ UNCHANGED pc
    /\ UNCHANGED <<upstream, expected, mainpc, sema, waiters, acquired, released,
                   ret, processed_count, mismatch_count, error_found, jsons, exit_code, mvars, hvars>>
    /\ PoolStep

\* lines 174-207: one of the two tasks of the second gather finishes.  The
\* gather raises as soon as one raises and returns when both have returned.
ExtraResp(i, kind) ==
    /\ pc[i] = "extras"
    /\ OnWire(i, Req(kind, 0))
    /\ LET rest == inflight[i] \ {Req(kind, 0)}
           raises == IF kind = "contrib" THEN ~upstream[i].contrib
                     ELSE upstream[i].social = "raise"
       IN  IF raises
           THEN Exit(i, FALSE, 0, rest)
           ELSE IF rest = {}
                THEN Exit(i, TRUE, Cardinality(Mismatched(downloads[i], expected[i])), {})
                ELSE /\ inflight' = [inflight EXCEPT ![i] = rest]
                     /\ UNCHANGED <<sema, waiters, pc, acquired, released, ret,
                                    processed_count, mismatch_count, error_found, jsons>>
    /\ UNCHANGED <<upstream, expected, mainpc, downloads, exit_code, mvars, hvars>>
    /\ PoolStep

\* a task created at lines 174-175 that outlived its process_repo finishes
OrphanResp(i, kind) ==
    /\ pc[i] = "done"
    /\ mainpc = "running"
    /\ OnWire(i, Req(kind, 0))
    /\ inflight' = [inflight EXCEPT ![i] = inflight[i] \ {Req(kind, 0)}]
    /\ UNCHANGED <<upstream, expected, mainpc, sema, waiters, pc, downloads,
                   acquired, released, ret, processed_count, mismatch_count,
                   error_found, jsons, exit_code, mvars, hvars>>
    /\ PoolStep

\* main, lines 245-265: every task was awaited, the session is closed, the
\* summary is printed and the exit status is set
MainExit ==
    /\ mainpc = "running"
    /\ \A i \in Items : pc[i] \in {"done", "none"}
    /\ mainpc' = "exited"
    /\ inflight' = [i \in Items |-> {}]
    /\ exit_code' = IF error_found THEN 1 ELSE 0
    /\ UNCHANGED <<upstream, expected, sema, waiters, pc, downloads, acquired,
                   released, ret, processed_count, mismatch_count, error_found, jsons, mvars, hvars>>
    /\ PoolStep

\* One live repository, at any position, among repositories that are gone.
InitBatch ==
    /\ \E live \in Items : \E w \in LiveWorlds :
          upstream = [i \in Items |-> IF i = live THEN w ELSE GoneWorld]
    /\ expected = [i \in Items |-> ExpectedOf]
    /\ mainpc = "init"
    /\ sema = SemaCapacity
    /\ waiters = <<>>
    /\ pc = [i \in Items |-> "new"]
    /\ inflight = [i \in Items |-> {}]
    /\ downloads = [i \in Items |-> <<>>]
    /\ acquired = [i \in Items |-> 0]
    /\ released = [i \in Items |-> 0]
    /\ ret = [i \in Items |-> NoReturn]
    /\ processed_count = 0
    /\ mismatch_count = 0
    /\ error_found = FALSE
    /\ exit_code = -1
    /\ jsons = <<>>
    /\ queued = <<>>

\* a repository whose latest release has more assets than the connector has
\* connections; every second download fails
PooledWorld ==
    [repo |-> TRUE, latest |-> TRUE, all |-> "fail",
     assets |-> [k \in 1..NumPooled |->
                    Asset(IF k = 1 THEN "mod.dll" ELSE "mod.pdb", k % 2 = 1, "d1", 1)],
     contrib |-> TRUE, social |-> "ok", stars |-> 1]

\* A config whose only entry is that repository.
PoolInit ==
    /\ upstream = [i \in Items |-> IF i = 1 THEN PooledWorld ELSE NoEntry]
    /\ expected = [i \in Items |-> ExpectedOf]
    /\ mainpc = "init"
    /\ sema = SemaCapacity
    /\ waiters = <<>>
    /\ pc = [i \in Items |-> "new"]
    /\ inflight = [i \in Items |-> {}]
    /\ downloads = [i \in Items |-> <<>>]
    /\ acquired = [i \in Items |-> 0]
    /\ released = [i \in Items |-> 0]
    /\ ret = [i \in Items |-> NoReturn]
    /\ processed_count = 0
    /\ mismatch_count = 0
    /\ error_found = FALSE
    /\ exit_code = -1
    /\ jsons = <<>>
    /\ queued = <<>>

\* A config of NumVerified entries, each of any kind.
VerifyInit ==
    /\ \E w \in [1..NumVerified -> LiveWorlds \cup {GoneWorld}] :
          upstream = [i \in Items |-> IF i <= NumVerified THEN w[i] ELSE NoEntry]
    /\ expected = [i \in Items |-> ExpectedOf]
    /\ mainpc = "init"
    /\ sema = SemaCapacity
    /\ waiters = <<>>
    /\ pc = [i \in Items |-> "new"]
    /\ inflight = [i \in Items |-> {}]
    /\ downloads = [i \in Items |-> <<>>]
    /\ acquired = [i \in Items |-> 0]
    /\ released = [i \in Items |-> 0]
    /\ ret = [i \in Items |-> NoReturn]
    /\ processed_count = 0
    /\ mismatch_count = 0
    /\ error_found = FALSE
    /\ exit_code = -1
    /\ jsons = <<>>
    /\ queued = <<>>

NextBatch ==
    \/ StartAll
    \/ \E i \in Items : RepoResp(i)
    \/ \E i \in Items : LatestResp(i)
    \/ \E i \in Items : AllResp(i)
    \/ \E i \in Items : \E k \in 1..Len(upstream[i].assets) : AssetResp(i, k)
    \/ \E i \in Items : \E kind \in {"contrib", "social"} : ExtraResp(i, kind)
    \/ \E i \in Items : \E kind \in {"contrib", "social"} : OrphanResp(i, kind)
    \/ MainExit

\* ---- claims about the admission semaphore -------------------------------

\* the items that have acquired the semaphore and not yet released it
Holders == { i \in Items : acquired[i] > released[i] }

\* C1: every process_repo that acquired a unit releases it exactly once on
\* every exit path (result, hash mismatch, caught failure); when all items
\* have finished, all 8 units are free again.
C1_ReleasedExactlyOnce ==
    /\ \A i \in Items :
          /\ released[i] <= acquired[i]
          /\ acquired[i] <= 1
          /\ (pc[i] = "done" => (acquired[i] = 1 /\ released[i] = 1))
    /\ ((\A i \in Items : pc[i] = "done") => sema = SemaCapacity)

\* a finished batch in which one item returned a result with a hash mismatch
\* and the others failed
C1_Witness ==
    /\ mainpc = "exited"
    /\ \E i \in Items : ret[i].json /\ ret[i].mismatched > 0
    /\ \E i \in Items : ~ret[i].json /\ ret[i].error

\* C2: at most 8 process_repo operations hold the semaphore, and the held
\* units plus the free units are always exactly 8.
C2_HeldPlusFree ==
    /\ Cardinality(Holders) <= SemaCapacity
    /\ Cardinality(Holders) + sema = SemaCapacity

\* all 8 units are held, one item has already finished and released, and the
\* item that waited has been admitted
C2_Witness ==
    /\ Cardinality(Holders) = SemaCapacity
    /\ \E i \in Items : pc[i] = "done"
    /\ waiters = <<>>
    /\ mainpc = "running"

\* C3: no request of an item is in flight while the item holds no unit.
C3_RequestsUnderUnit ==
    \A i \in Items : inflight[i] # {} => i \in Holders

MaxConcurrent(i) ==
    IF Len(upstream[i].assets) > 2 THEN Len(upstream[i].assets) ELSE 2

Entries == { i \in Items : upstream[i] # NoEntry }

\* the latest release of the item is known and has assets to verify
HasAssets(i) ==
    /\ upstream[i].repo
    /\ upstream[i].latest \/ upstream[i].all = "list"
    /\ upstream[i].assets # <<>>

\* the assets of the item have all been verified
Verified(i) == HasAssets(i) /\ pc[i] \in {"extras", "done"}

\* the digest the download of asset k of item i observes, None if it fails
Observed(i, k) ==
    IF upstream[i].assets[k].ok THEN upstream[i].assets[k].digest ELSE None

\* the digest recorded for asset k of item i, None if there is none
Recorded(i, k) == expected[i][upstream[i].assets[k].name]

\* C11: verifying the M assets of a release gives M results; the result of
\* an asset whose download failed, and only that one, has matched = false
\* with an error; the result of every other asset has the digest of that
\* asset and no error, whatever happened to the downloads beside it.
C11_OneResultPerAsset ==
    \A i \in Entries :
       Verified(i) =>
          /\ DOMAIN downloads[i] = 1..Len(upstream[i].assets)
          /\ \A k \in DOMAIN downloads[i] :
                /\ downloads[i][k].name = upstream[i].assets[k].name
                /\ downloads[i][k].error = ~upstream[i].assets[k].ok
                /\ downloads[i][k].currentHash = Observed(i, k)
                /\ downloads[i][k].error => downloads[i][k].hashMatch = "False"

\* C11: an item was processed whose release has two assets; the download of
\* the second failed, the first was verified and matched.
C11_Witness ==
    \E i \in Entries :
       /\ pc[i] = "done"
       /\ ret[i].json
       /\ DOMAIN downloads[i] = {1, 2}
       /\ downloads[i][2].error /\ downloads[i][2].hashMatch = "False"
       /\ ~downloads[i][1].error /\ downloads[i][1].hashMatch = "True"

\* C12 as stated: for every result, matched is true iff a digest is recorded
\* and the observed one equals it, false iff a digest is recorded and the
\* observed one differs, and null whenever no digest is recorded.
C12_MatchedIffDigestsAgree ==
    \A i \in Entries : \A k \in DOMAIN downloads[i] :
       /\ (downloads[i][k].hashMatch = "True")
             <=> (Recorded(i, k) # None /\ Observed(i, k) = Recorded(i, k))
       /\ (downloads[i][k].hashMatch = "False")
             <=> (Recorded(i, k) # None /\ Observed(i, k) # Recorded(i, k))
       /\ Recorded(i, k) = None => downloads[i][k].hashMatch = "None"

\* C12: for every result of a download that completed, matched is true iff
\* a digest is recorded and the observed one equals it, false iff a digest
\* is recorded and the observed one differs, and null iff none is recorded;
\* the result of a download that failed has matched = false, also when no
\* digest is recorded.
C12_MatchedOfCompletedDownload ==
    \A i \in Entries : \A k \in DOMAIN downloads[i] :
       IF upstream[i].assets[k].ok
       THEN /\ (downloads[i][k].hashMatch = "True")
                  <=> (Recorded(i, k) # None /\ Observed(i, k) = Recorded(i, k))
            /\ (downloads[i][k].hashMatch = "False")
                  <=> (Recorded(i, k) # None /\ Observed(i, k) # Recorded(i, k))
            /\ (downloads[i][k].hashMatch = "None") <=> Recorded(i, k) = None
       ELSE downloads[i][k].hashMatch = "False"

\* C12: results with matched true, false and null of completed downloads,
\* and matched false of a failed download without a recorded digest.
C12_Witness ==
    /\ \E i \in Entries : \E k \in DOMAIN downloads[i] :
          downloads[i][k].hashMatch = "True"
    /\ \E i \in Entries : \E k \in DOMAIN downloads[i] :
          downloads[i][k].hashMatch = "False" /\ ~downloads[i][k].error
    /\ \E i \in Entries : \E k \in DOMAIN downloads[i] :
          downloads[i][k].hashMatch = "None"
    /\ \E i \in Entries : \E k \in DOMAIN downloads[i] :
          /\ downloads[i][k].hashMatch = "False" /\ downloads[i][k].error
          /\ Recorded(i, k) = None

\* a request of the item that process_repo does not survive is refused
ItemFails(i) ==
    \/ ~upstream[i].repo
    \/ ~upstream[i].latest /\ upstream[i].all = "fail"
    \/ ~upstream[i].contrib
    \/ upstream[i].social = "raise"

\* an asset of the item has a recorded digest and the download observes
\* another one, or none
DigestDiffers(i) ==
    /\ HasAssets(i)
    /\ \E k \in 1..Len(upstream[i].assets) :
          Recorded(i, k) # None /\ Observed(i, k) # Recorded(i, k)

\* C13: main exits with a status other than zero exactly when an item
\* failed to process or an asset's observed digest differs from the digest
\* recorded for it, and with status zero in every other run.
C13_ExitStatus ==
    mainpc = "exited" =>
       /\ exit_code \in {0, 1}
       /\ (exit_code # 0) <=> (\E i \in Entries : ItemFails(i) \/ DigestDiffers(i))

\* C13: main has exited with status zero after processing every entry, one
\* of them with verified assets.
C13_Witness ==
    /\ mainpc = "exited"
    /\ exit_code = 0
    /\ processed_count = NumVerified
    /\ \E i \in Entries : Verified(i)

\* C14: an item with an asset whose download failed is returned with the
\* error flag, and main then exits with a status other than zero.
C14_FailedDownloadCounts ==
    /\ \A i \in Entries :
          (pc[i] = "done" /\ ret[i].json
             /\ \E k \in DOMAIN downloads[i] : downloads[i][k].error)
          => ret[i].error
    /\ (mainpc = "exited"
          /\ \E i \in Entries : \E k \in DOMAIN downloads[i] : downloads[i][k].error)
       => exit_code # 0

(***************************************************************************)
(* Part II.  The config manager, src/configmanager.py                      *)
(***************************************************************************)

\* ---- Python strings, as sequences of one-character strings --------------

\* a sha or annotation that is None
NoneS == <<None>>

\* Python truthiness of a str-or-None
Truthy(s) == s # NoneS /\ s # <<>>

UpperChars == <<"A", "B", "C", "D", "E", "F">>
LowerChars == <<"a", "b", "c", "d", "e", "f">>

LowerChar(c) ==
    IF \E k \in 1..Len(UpperChars) : UpperChars[k] = c
    THEN LowerChars[CHOOSE k \in 1..Len(UpperChars) : UpperChars[k] = c]
    ELSE c

\* str.lower
Lower(s) == [k \in 1..Len(s) |-> LowerChar(s[k])]

\* str.startswith
StartsWith(s, prefix) ==
    Len(prefix) <= Len(s) /\ SubSeq(s, 1, Len(prefix)) = prefix

\* str.find: the first position of sub in s, 0 if there is none
Find(s, sub) ==
    LET at == { k \in 1..(Len(s) - Len(sub) + 1) : SubSeq(s, k, k + Len(sub) - 1) = sub }
    IN  IF at = {} THEN 0 ELSE CHOOSE k \in at : \A j \in at : k <= j

\* str.strip
Strip(s) ==
    LET ink == { k \in 1..Len(s) : s[k] # " " }
    IN  IF ink = {} THEN <<>>
        ELSE SubSeq(s, CHOOSE k \in ink : \A j \in ink : k <= j,
                       CHOOSE k \in ink : \A j \in ink : k >= j)

\* s.split(sep, 1)[1], for sep in s
AfterFirst(s, sep) == SubSeq(s, Find(s, sep) + Len(sep), Len(s))

\* s.split(sep)[0]
BeforeFirst(s, sep) ==
    IF Find(s, sep) = 0 THEN s ELSE SubSeq(s, 1, Find(s, sep) - 1)

RECURSIVE SplitWS(_)
\* str.split(): the whitespace-separated tokens
SplitWS(s) ==
    LET t == Strip(s)
        sp == Find(t, <<" ">>)
    IN  IF t = <<>> THEN <<>>
        ELSE IF sp = 0 THEN <<t>>
        ELSE <<SubSeq(t, 1, sp - 1)>> \o SplitWS(SubSeq(t, sp + 1, Len(t)))

\* f"Last commit on {default_branch}: {sha} @ {date}"
Comment(branch, sha, date) ==
    <<"L", "a", "s", "t", " ", "c", "o", "m", "m", "i", "t", " ", "o", "n", " ">>
        \o branch \o <<":", " ">> \o sha \o <<" ", "@", " ">> \o date

\* ---- reading the old sha out of an annotation ---------------------------

\* _check_updates_worker lines 696-702 and action_view_diff lines 793-798:
\* old_comment.split(":", 1)[1].strip().split(" @")[0].strip() if ":" in
\* old_comment else None.  On a str the expression cannot raise, so the
\* except branches (parts[3], pass) are never taken.
ExtractSha(old_comment) ==
    IF Find(old_comment, <<":">>) # 0
    THEN Strip(BeforeFirst(Strip(AfterFirst(old_comment, <<":">>)), <<" ", "@">>))
    ELSE NoneS

\* _update_repo_worker line 574: old_comment.split()[3] if old_comment else
\* None; [raised] when the index is out of range
UpdateOldSha(old_comment) ==
    IF old_comment = <<>> THEN [raised |-> FALSE, sha |-> NoneS]
    ELSE IF Len(SplitWS(old_comment)) > 3
    THEN [raised |-> FALSE, sha |-> SplitWS(old_comment)[4]]
    ELSE [raised |-> TRUE, sha |-> NoneS]

\* ---- the manager's state --------------------------------------------------

\* entries of config.json in the modelled run
NumRepos == 2

\* operations the user starts in a run
MaxOps == 1

\* operations the user starts in a run that only edits the store
MaxStoreOps == 2

\* the pass created at startup and at most one per operation of the user
Passes == 1..(MaxOps + 1)


\* ---- the inputs ---------------------------------------------------------

Main == <<"m", "a", "i", "n">>
Dev == <<"d", "e", "v">>
Master == <<"m", "a", "s", "t", "e", "r">>
Develop == <<"d", "e", "v", "e", "l", "o", "p">>
Date1 == <<"2", "0", "2", "4", "-", "0", "1", "-", "0", "1">>
Date2 == <<"2", "0", "2", "4", "-", "0", "2", "-", "0", "3", "T", "1", "0", ":", "0", "0", ":", "0", "0", "Z">>
Sha_aaaa111 == <<"a", "a", "a", "a", "1", "1", "1">>
Sha_bbbb222 == <<"b", "b", "b", "b", "2", "2", "2">>
Sha_abc1234 == <<"a", "b", "c", "1", "2", "3", "4">>
Sha_ABC1234 == <<"A", "B", "C", "1", "2", "3", "4">>
Sha_abc1234567 == <<"a", "b", "c", "1", "2", "3", "4", "5", "6", "7">>
Sha_def5678 == <<"d", "e", "f", "5", "6", "7", "8">>
\* "note: see aaaa111"
NoteComment == <<"n", "o", "t", "e", ":", " ", "s", "e", "e", " ", "a", "a", "a", "a", "1", "1", "1">>

\* the answer of GitHub for one coordinate.  status "ok": the repository and
\* branch resources are served; "error": they are answered with a non-2xx
\* status and a JSON error body (rate limit); "down": session.get raises.
Up(status, branch, sha, date, release, hashes) ==
    [status |-> status, branch |-> branch, sha |-> sha, date |-> date,
     message |-> "msg", release |-> release, hashes |-> hashes]

\* the answers to the requests of the change summary: the comparison of the
\* commit range and the two commit resources; a status, or "raise" when
\* session.get raises
DiffAnswers(compare, old, new) == [compare |-> compare, old |-> old, new |-> new]

\* the answer of GitHub for one coordinate, with the answers to the change
\* summary's requests
WithDiff(u, d) ==
    [status |-> u.status, branch |-> u.branch, sha |-> u.sha, date |-> u.date,
     message |-> u.message, release |-> u.release, hashes |-> u.hashes, diff |-> d]

OneAsset(digest) == [n \in {"mod.dll"} |-> digest]
NoAssets == [n \in {} |-> None]

\* the tracked items the runs draw from: the stored annotation and assets,
\* and what the upstream now reports
Catalogue ==
    << [repo |-> "foo/bar", comment |-> Comment(Main, Sha_aaaa111, Date1),
        assets |-> OneAsset("d1"),
        up |-> WithDiff(Up("ok", Main, Sha_bbbb222, Date2, TRUE, OneAsset("d2")),
                       DiffAnswers("200", "200", "200"))],
       [repo |-> "o/case", comment |-> Comment(Main, Sha_abc1234, Date2),
        assets |-> OneAsset("d1"),
        up |-> WithDiff(Up("ok", Main, Sha_ABC1234, Date2, TRUE, OneAsset("d1")),
                       DiffAnswers("404", "200", "200"))],
       [repo |-> "o/empty", comment |-> <<>>,
        assets |-> NoAssets,
        up |-> WithDiff(Up("ok", Main, Sha_def5678, Date1, FALSE, NoAssets),
                       DiffAnswers("200", "200", "200"))],
       [repo |-> "o/abbr", comment |-> Comment(Dev, Sha_abc1234, Date1),
        assets |-> OneAsset("d1"),
        up |-> WithDiff(Up("ok", Main, Sha_abc1234567, Date2, TRUE, OneAsset(None)),
                       DiffAnswers("500", "200", "200"))],
       [repo |-> "o/limited", comment |-> Comment(Main, Sha_aaaa111, Date1),
        assets |-> OneAsset("d1"),
        up |-> WithDiff(Up("error", Main, Sha_bbbb222, Date2, TRUE, OneAsset("d1")),
                       DiffAnswers("403", "403", "403"))],
       [repo |-> "o/same", comment |-> Comment(Main, Sha_def5678, Date2),
        assets |-> OneAsset("d1"),
        up |-> WithDiff(Up("ok", Main, Sha_def5678, Date2, TRUE, OneAsset("d1")),
                       DiffAnswers("200", "200", "200"))],
       [repo |-> "o/down", comment |-> Comment(Main, Sha_aaaa111, Date1),
        assets |-> OneAsset("d1"),
        up |-> WithDiff(Up("down", Main, Sha_bbbb222, Date2, TRUE, OneAsset("d1")),
                       DiffAnswers("raise", "raise", "raise"))],
       [repo |-> "o/note", comment |-> NoteComment,
        assets |-> NoAssets,
        up |-> WithDiff(Up("ok", Main, Sha_aaaa111, Date1, FALSE, NoAssets),
                       DiffAnswers("404", "404", "200"))],
       [repo |-> "o/moved", comment |-> Comment(Master, Sha_aaaa111, Date1),
        assets |-> OneAsset("d1"),
        up |-> WithDiff(Up("ok", Develop, Sha_bbbb222, Date2, TRUE, OneAsset("d2")),
                       DiffAnswers("404", "200", "raise"))] >>

Repos == { Catalogue[k].repo : k \in 1..Len(Catalogue) }

CatalogueOf(repo) == Catalogue[CHOOSE k \in 1..Len(Catalogue) : Catalogue[k].repo = repo]

Entry(repo, comment, assets) == [repo |-> repo, comment |-> comment, assets |-> assets]

\* ---- the gateway ----------------------------------------------------------

\* fetch_latest_commit_info (lines 105-123) and _fetch_latest_commit_info
\* (lines 750-769): no status is looked at; an error body has no 'commit',
\* so sha, date and message are ''
FetchCommitInfo(repo) ==
    LET u == github[repo]
    IN  IF u.status = "down"
        THEN [raised |-> TRUE, sha |-> <<>>, date |-> <<>>, message |-> ""]
        ELSE IF u.status = "error"
        THEN [raised |-> FALSE, sha |-> <<>>, date |-> <<>>, message |-> ""]
        ELSE [raised |-> FALSE, sha |-> u.sha, date |-> u.date, message |-> u.message]

\* a fetch that raises when the release request is not answered with 200
FetchReleaseAssetsStrict(repo) ==
    LET u == github[repo]
    IN  IF u.status # "ok" \/ ~u.release
        THEN [raised |-> TRUE, hashes |-> NoAssets, comment |-> <<>>]
        ELSE [raised |-> FALSE, hashes |-> u.hashes,
              comment |-> Comment(u.branch, u.sha, u.date)]

\* fetch_latest_release_assets (lines 78-103): br['commit']['sha'] raises on
\* an error body; without a release the hashes are {}; an asset whose
\* hashing fails is recorded with None
FetchReleaseAssets(repo) ==
    LET u == github[repo]
    IN  IF u.status # "ok"
        THEN [raised |-> TRUE, hashes |-> NoAssets, comment |-> <<>>]
        ELSE [raised |-> FALSE,
              hashes |-> IF u.release THEN u.hashes ELSE NoAssets,
              comment |-> Comment(u.branch, u.sha, u.date)]

\* ---- the change summary: _show_repo_diff -----------------------------------

\* what a run of the summary did: the requests it issued, the report it
\* showed, the error it notified, and whether an exception left it
Summary(requests, report, notified, status, raised) ==
    [requests |-> requests, report |-> report, notified |-> notified,
     status |-> status, raised |-> raised]

NoSummary == Summary(<<>>, "none", "none", "none", FALSE)

\* a validation that looks at the old identifier only
ValidRangeOldOnly(old_sha, new_sha) == Truthy(old_sha) /\ Len(old_sha) >= 7

\* line 832: both identifiers are present and at least 7 characters long
ValidRange(old_sha, new_sha) ==
    /\ Truthy(old_sha) /\ Len(old_sha) >= 7
    /\ Truthy(new_sha) /\ Len(new_sha) >= 7

\* a fallback whose exceptions leave it
ShowRepoDiffAlternativeRaising(d) ==
    IF d.old = "raise"
    THEN Summary(<<"old">>, "none", "none", "none", TRUE)
    ELSE IF d.old # "200"
    THEN Summary(<<"old">>, "none", "old commit", d.old, FALSE)
    ELSE IF d.new = "raise"
    THEN Summary(<<"old", "new">>, "none", "none", "none", TRUE)
    ELSE IF d.new # "200"
    THEN Summary(<<"old", "new">>, "none", "new commit", d.new, FALSE)
    ELSE Summary(<<"old", "new">>, "fallback", "none", "none", FALSE)

\* _show_repo_diff_alternative (lines 903-959): the two commit requests; a
\* status other than 200 is notified, an exception is caught and notified
ShowRepoDiffAlternative(d) ==
    IF d.old = "raise"
    THEN Summary(<<"old">>, "none", "exception", "none", FALSE)
    ELSE IF d.old # "200"
    THEN Summary(<<"old">>, "none", "old commit", d.old, FALSE)
    ELSE IF d.new = "raise"
    THEN Summary(<<"old", "new">>, "none", "exception", "none", FALSE)
    ELSE IF d.new # "200"
    THEN Summary(<<"old", "new">>, "none", "new commit", d.new, FALSE)
    ELSE Summary(<<"old", "new">>, "fallback", "none", "none", FALSE)

\* a summary that falls back on every status other than 200
ShowRepoDiffAlwaysFallingBack(old_sha, new_sha, d) ==
    IF ~ValidRange(old_sha, new_sha)
    THEN Summary(<<>>, "none", "invalid", "none", FALSE)
    ELSE IF d.compare = "raise"
    THEN Summary(<<"compare">>, "none", "exception", "none", FALSE)
    ELSE IF d.compare # "200"
    THEN LET a == ShowRepoDiffAlternative(d)
         IN  [a EXCEPT !.requests = <<"compare">> \o @]
    ELSE Summary(<<"compare">>, "primary", "none", "none", FALSE)

\* _show_repo_diff (lines 825-901): the validation, the comparison request,
\* the fallback on 404, the notification of any other status, the report
ShowRepoDiff(old_sha, new_sha, d) ==
    IF ~ValidRange(old_sha, new_sha)
    THEN Summary(<<>>, "none", "invalid", "none", FALSE)
    ELSE IF d.compare = "raise"
    THEN Summary(<<"compare">>, "none", "exception", "none", FALSE)
    ELSE IF d.compare = "404"
    THEN LET a == ShowRepoDiffAlternative(d)
         IN  [a EXCEPT !.requests = <<"compare">> \o @]
    ELSE IF d.compare # "200"
    THEN Summary(<<"compare">>, "none", "failed", d.compare, FALSE)
    ELSE Summary(<<"compare">>, "primary", "none", "none", FALSE)

\* ---- dict helpers ---------------------------------------------------------

DictSet(d, k, v) == [x \in DOMAIN d \cup {k} |-> IF x = k THEN v ELSE d[x]]
DictDel(d, k) == [x \in DOMAIN d \ {k} |-> d[x]]
EmptyDict == [x \in {} |-> None]

\* ---- the store's list object and the document ------------------------------

\* ---- json.dumps and json.loads on the store --------------------------------

\* the tokens of a JSON text: punctuation, null, a string given as a whole
\* (coordinates, asset names, digests, keys) or by its characters (the
\* annotation)
Punct(k) == [k |-> k, s |-> "", c |-> <<>>]
Str(s) == [k |-> "str", s |-> s, c |-> <<>>]
Chars(c) == [k |-> "str", s |-> "", c |-> c]
Null == Punct("null")

\* the asset names in the order the dicts of the modelled runs hold them
AssetOrder == <<"mod.dll", "mod.pdb">>

\* json.dumps of a digest: a string, or null for None
DumpDigest(h) == IF h = None THEN Null ELSE Str(h)

RECURSIVE DumpPairs(_, _, _)
\* json.dumps of the items of an asset dict from position k of the order
DumpPairs(assets, k, first) ==
    IF k > Len(AssetOrder) THEN <<>>
    ELSE IF AssetOrder[k] \notin DOMAIN assets THEN DumpPairs(assets, k + 1, first)
    ELSE (IF first THEN <<>> ELSE <<Punct(",")>>)
         \o <<Str(AssetOrder[k]), Punct(":"), DumpDigest(assets[AssetOrder[k]])>>
         \o DumpPairs(assets, k + 1, FALSE)

\* json.dumps of one entry: {repo: {"_comment": comment, "assets": {...}}}
DumpEntry(e) ==
    <<Punct("{"), Str(e.repo), Punct(":"), Punct("{"),
      Str("_comment"), Punct(":"), Chars(e.comment), Punct(","),
      Str("assets"), Punct(":"), Punct("{")>>
    \o DumpPairs(e.assets, 1, TRUE)
    \o <<Punct("}"), Punct("}"), Punct("}")>>

RECURSIVE DumpEntries(_, _)
DumpEntries(store, k) ==
    IF k > Len(store) THEN <<>>
    ELSE (IF k = 1 THEN <<>> ELSE <<Punct(",")>>)
         \o DumpEntry(store[k]) \o DumpEntries(store, k + 1)

\* a serialisation that leaves out the assets without a digest
DumpsWithoutNull(store) ==
    <<Punct("[")>>
    \o DumpEntries([k \in 1..Len(store) |->
           [store[k] EXCEPT !.assets =
               [n \in {m \in DOMAIN store[k].assets : store[k].assets[m] # None}
                   |-> store[k].assets[n]]]], 1)
    \o <<Punct("]")>>

\* json.dumps(config, indent=4), line 50
Dumps(store) == <<Punct("[")>> \o DumpEntries(store, 1) \o <<Punct("]")>>

\* json.loads of a digest
LoadDigest(t) == IF t.k = "null" THEN None ELSE t.s

RECURSIVE LoadPairs(_, _, _)
\* json.loads of the items of an object of digests; t[j] is a name
LoadPairs(t, j, acc) ==
    LET d == [x \in DOMAIN acc \cup {t[j].s} |->
                 IF x = t[j].s THEN LoadDigest(t[j + 2]) ELSE acc[x]]
    IN  IF t[j + 3].k = "," THEN LoadPairs(t, j + 4, d)
        ELSE [val |-> d, next |-> j + 4]

\* json.loads of an object of digests; t[i] is its opening brace
LoadAssets(t, i) ==
    IF t[i + 1].k = "}" THEN [val |-> [x \in {} |-> None], next |-> i + 2]
    ELSE LoadPairs(t, i + 1, [x \in {} |-> None])

\* json.loads of one entry; t[i] is its opening brace
LoadEntry(t, i) ==
    LET a == LoadAssets(t, i + 10)
    IN  [val |-> [repo |-> t[i + 1].s, comment |-> t[i + 6].c, assets |-> a.val],
         next |-> a.next + 2]

RECURSIVE LoadEntries(_, _, _)
LoadEntries(t, i, acc) ==
    LET e == LoadEntry(t, i)
        all == Append(acc, e.val)
    IN  IF t[e.next].k = "," THEN LoadEntries(t, e.next + 1, all) ELSE all

\* json.loads(content), line 45
Loads(t) == IF t[2].k = "]" THEN <<>> ELSE LoadEntries(t, 2, <<>>)

\* ---- the document ------------------------------------------------------------

\* config.json after a completed write of the entries
Doc(entries) == [exists |-> TRUE, torn |-> FALSE, doc |-> Dumps(entries)]

\* config.json just opened with mode 'w' (line 49): empty
Truncated == [exists |-> TRUE, torn |-> TRUE, doc |-> <<>>]

\* there is no config.json
Absent == [exists |-> FALSE, torn |-> FALSE, doc |-> <<>>]

\* load_config, lines 41-46: the entries of the document, [] without a file
LoadConfig(d) == IF d.exists THEN Loads(d.doc) ELSE <<>>

\* the app has not ended with an unhandled exception of a handler
Alive == ui.pc # "crashed"

\* the list object a coroutine holds: self.config as long as that is still
\* the same object, else the object as it was when self.config was rebound
ListOf(rec) == IF rec.frozen THEN rec.snap ELSE config

\* self.config is about to be rebound: a coroutine that holds the list keeps
\* the old object
Keep(rec, holds) ==
    IF holds /\ ~rec.frozen THEN [rec EXCEPT !.frozen = TRUE, !.snap = config] ELSE rec

\* lines 463 and 484: self.config = <a new list>
Rebind(new) ==
    /\ config' = new
    /\ pass' = [p \in Passes |-> Keep(pass[p], pass[p].pc \in {"fetch", "sleep"})]
    /\ upd' = Keep(upd, upd.pc = "save")
    /\ ua' = Keep(ua, ua.pc \in {"fetch", "save"})

\* save_config, lines 49-50: the file is open (and empty), json.dumps has
\* serialised the list that was passed
SaveOpened(rec) == [rec EXCEPT !.pc = "write", !.frozen = TRUE, !.snap = ListOf(rec)]

\* ---- the reconciliation pass: _check_updates_worker ---------------------

\* a comparison that forgets the prefix test
ClassifyNoPrefix(old_sha, new_sha) ==
    IF Truthy(old_sha) /\ Truthy(new_sha) /\ old_sha # new_sha
       /\ Lower(old_sha) # Lower(new_sha)
    THEN "outdated" ELSE "uptodate"

\* lines 709-724: which counter the item goes to
Classify(old_sha, new_sha) ==
    IF Truthy(old_sha) /\ Truthy(new_sha) /\ old_sha # new_sha
    THEN IF /\ Lower(old_sha) # Lower(new_sha)
            /\ ~StartsWith(new_sha, old_sha)
            /\ ~StartsWith(old_sha, new_sha)
         THEN "outdated"
         ELSE "uptodate"
    ELSE "uptodate"

IdlePass ==
    [pc |-> "idle", i |-> 0, repo |-> None, old_comment |-> <<>>,
     old_sha |-> NoneS, total_count |-> 0,
     outdated_count |-> 0, update_count |-> 0, error_count |-> 0, gen |-> 0,
     frozen |-> FALSE, snap |-> <<>>]

NoFinal == [done |-> FALSE, records |-> EmptyDict, store |-> <<>>]

\* lines 686-705 and 725-728: the loop body for item i of the list being
\* iterated, up to the await of the fetch; the read of self.config[i][repo]
\* (line 694) raises when the store no longer holds that coordinate at i, and
\* the item is counted as an error
PassIteration(rec, i) ==
    LET repo == ListOf(rec)[i].repo
    IN  IF i <= Len(config) /\ config[i].repo = repo
        THEN [rec EXCEPT !.pc = "fetch", !.i = i, !.repo = repo,
                         !.old_comment = config[i].comment,
                         !.old_sha = ExtractSha(config[i].comment)]
        ELSE [rec EXCEPT !.pc = "sleep", !.i = i, !.repo = repo,
                         !.old_comment = <<>>, !.old_sha = NoneS,
                         !.error_count = @ + 1]

\* lines 733-748: the loop is over, the summary is shown
PassFinish(p, rec, records) ==
    /\ pass' = [pass EXCEPT ![p] = [rec EXCEPT !.pc = "done", !.i = 0, !.repo = None,
                                                !.old_comment = <<>>,
                                                !.old_sha = NoneS,
                                                !.frozen = FALSE, !.snap = <<>>]]
    /\ passfinal' = [passfinal EXCEPT ![p] =
                        [done |-> TRUE, records |-> records, store |-> config]]

\* a pass that keeps the drift set of the passes before it
KeptDrift(d) == d

\* line 680: self.outdated_repos = {}
ClearedDrift(d) == EmptyDict

\* a pass that saves the store as the other workers do
PassStoreSaved ==
    /\ config' = config
    /\ disk' = Doc(config)

\* lines 672-748: no step of the pass assigns to self.config or to one of its
\* entries, and none calls save_config
PassStore ==
    /\ config' = config
    /\ disk' = disk

\* lines 674-705: the counters and the first iteration up to its fetch
FirstIteration(store, gen) ==
    LET rec == [IdlePass EXCEPT !.total_count = Len(store), !.gen = gen]
    IN  [rec EXCEPT !.pc = "fetch", !.i = 1, !.repo = store[1].repo,
                    !.old_comment = store[1].comment,
                    !.old_sha = ExtractSha(store[1].comment)]

\* lines 674-705: the counters, the clearing of the drift set, and the first
\* iteration up to its fetch
PassBegin(p) ==
    /\ outdated_repos' = ClearedDrift(outdated_repos)
    /\ epoch' = epoch + 1
    /\ IF Len(config) = 0
       THEN PassFinish(p, [IdlePass EXCEPT !.gen = epoch + 1], outdated_repos')
       ELSE /\ pass' = [pass EXCEPT ![p] = FirstIteration(config, epoch + 1)]
            /\ UNCHANGED passfinal

\* action_check_updates (lines 667-670): the user asks for a pass; the task
\* it creates takes its first step.  (The steps of other coroutines that run
\* between the creation and the first step commute with the creation.)
CheckUpdates(p) ==
    /\ Alive
    /\ ui.pc = "idle"
    /\ ops < budget
    /\ pass[p].pc = "idle"
    /\ \A q \in Passes : q < p => pass[q].pc # "idle"
    /\ ops' = ops + 1
    /\ PassBegin(p)
    /\ PassStore
    /\ UNCHANGED <<github, passlog, ui, upd, ua, budget, bvars, hvars>>

\* lines 705-731: the fetch returned or raised; the item is counted, and the
\* pass sleeps
PassFetched(p) ==
    /\ Alive
    /\ pass[p].pc = "fetch"
    /\ LET rec == pass[p]
           info == FetchCommitInfo(rec.repo)
           class == IF info.raised THEN "error" ELSE Classify(rec.old_sha, info.sha)
       IN  /\ outdated_repos' =
                 IF class = "outdated"
                 THEN DictSet(outdated_repos, rec.repo,
                              [old_sha |-> rec.old_sha, new_sha |-> info.sha,
                               commit_date |-> info.date, message |-> info.message,
                               index |-> rec.i, by |-> p, gen |-> epoch])
                 ELSE outdated_repos
           /\ pass' = [pass EXCEPT ![p] =
                 [rec EXCEPT !.pc = "sleep",
                             !.outdated_count = @ + (IF class = "outdated" THEN 1 ELSE 0),
                             !.update_count = @ + (IF class = "uptodate" THEN 1 ELSE 0),
                             !.error_count = @ + (IF class = "error" THEN 1 ELSE 0)]]
           /\ passlog' = [passlog EXCEPT ![p] = Append(@,
                 [repo |-> rec.repo, old_comment |-> rec.old_comment,
                  old_sha |-> rec.old_sha,
                  new_sha |-> IF info.raised THEN NoneS ELSE info.sha,
                  raised |-> info.raised, class |-> class])]
    /\ PassStore
    /\ UNCHANGED <<github, passfinal, ui, upd, ua, ops, epoch, budget, bvars, hvars>>

\* line 731 and the loop head: the sleep is over; the list iterator yields
\* the next item of its list and the iteration runs up to its fetch (or to
\* its error), or the iterator is exhausted and the pass finishes
PassWake(p) ==
    /\ Alive
    /\ pass[p].pc = "sleep"
    /\ LET rec == pass[p]
       IN  IF rec.i < Len(ListOf(rec))
           THEN LET nxt == PassIteration(rec, rec.i + 1)
                IN  /\ pass' = [pass EXCEPT ![p] = nxt]
                    /\ passlog' =
                         IF nxt.pc = "sleep"
                         THEN [passlog EXCEPT ![p] = Append(@,
                                 [repo |-> nxt.repo, old_comment |-> <<>>,
                                  old_sha |-> NoneS, new_sha |-> NoneS,
                                  raised |-> TRUE, class |-> "error"])]
                         ELSE passlog
                    /\ UNCHANGED passfinal
           ELSE /\ PassFinish(p, rec, outdated_repos)
                /\ UNCHANGED passlog
    /\ PassStore
    /\ UNCHANGED <<github, outdated_repos, ui, upd, ua, ops, epoch, budget, bvars, hvars>>

\* ---- view-diff: action_view_diff ----------------------------------------

IdleUi ==
    [pc |-> "idle", idx |-> 0, repo |-> None, old_comment |-> <<>>,
     old_sha |-> NoneS, new_sha |-> NoneS, frozen |-> FALSE, snap |-> <<>>,
     summary |-> NoSummary]

\* line 806: if new_sha and new_sha != old_sha
ViewDiffers(old_sha, new_sha) == Truthy(new_sha) /\ new_sha # old_sha

\* lines 771-800: the key press, up to the first await
ViewDiff(idx) ==
    /\ Alive
    /\ ui.pc = "idle"
    /\ ops < budget
    /\ idx \in 1..Len(config)
    /\ ops' = ops + 1
    /\ LET repo == config[idx].repo
           old_sha == ExtractSha(config[idx].comment)
       IN  IF repo \in DOMAIN outdated_repos
           THEN ui' = [IdleUi EXCEPT !.pc = "diff", !.idx = idx, !.repo = repo,
                                     !.old_sha = outdated_repos[repo].old_sha,
                                     !.new_sha = outdated_repos[repo].new_sha]
           ELSE IF Truthy(old_sha)
           THEN ui' = [IdleUi EXCEPT !.pc = "fetch", !.idx = idx, !.repo = repo,
                                     !.old_comment = config[idx].comment,
                                     !.old_sha = old_sha]
           ELSE ui' = IdleUi
    /\ UNCHANGED <<github, config, disk, outdated_repos, pass, passlog, passfinal,
                   upd, ua, epoch, budget, bvars, hvars>>

\* lines 802-821: the fetch returned or raised
ViewFetched ==
    /\ ui.pc = "fetch"
    /\ LET info == FetchCommitInfo(ui.repo)
       IN  IF ~info.raised /\ ViewDiffers(ui.old_sha, info.sha)
           THEN /\ outdated_repos' = DictSet(outdated_repos, ui.repo,
                       [old_sha |-> ui.old_sha, new_sha |-> info.sha,
                        commit_date |-> info.date, message |-> info.message,
                        index |-> ui.idx, by |-> 0, gen |-> epoch])
                /\ ui' = [ui EXCEPT !.pc = "diff", !.new_sha = info.sha]
           ELSE /\ ui' = IdleUi
                /\ UNCHANGED outdated_repos
    /\ UNCHANGED <<github, config, disk, pass, passlog, passfinal, upd, ua, ops,
                   epoch, budget, bvars, hvars>>

\* lines 783-784, 815-816: _show_repo_diff ran and returned
ViewShown ==
    /\ ui.pc = "diff"
    /\ ui' = [IdleUi EXCEPT !.repo = ui.repo, !.summary =
                 ShowRepoDiff(ui.old_sha, ui.new_sha, github[ui.repo].diff)]
    /\ UNCHANGED <<github, config, disk, outdated_repos, pass, passlog, passfinal,
                   upd, ua, ops, epoch, budget, bvars, hvars>>

\* ---- add, remove, refresh: the handlers that edit the store ----------------

\* the successor of a coordinate in the catalogue
CatalogueNext(repo) ==
    LET k == CHOOSE j \in 1..Len(Catalogue) : Catalogue[j].repo = repo
    IN  Catalogue[(k % Len(Catalogue)) + 1].repo

\* what the user types into the add dialog: the coordinate of the first
\* entry, or the catalogue's successor of the last entry's
AddInputs ==
    IF config = <<>> THEN {Catalogue[1].repo}
    ELSE {config[1].repo, CatalogueNext(config[Len(config)].repo)}

\* line 484: the entries of other coordinates, then the new entry
AddedTo(store, repo, r) ==
    SelectSeq(store, LAMBDA e : e.repo # repo) \o <<Entry(repo, r.comment, r.hashes)>>

\* on_button_pressed, lines 479-483: "Add Mod" is pressed; the handler awaits
\* the fetch
AddRepo(repo) ==
    /\ Alive
    /\ ui.pc = "idle"
    /\ ops < budget
    /\ repo \in AddInputs
    /\ ops' = ops + 1
    /\ ui' = [IdleUi EXCEPT !.pc = "addfetch", !.repo = repo]
    /\ UNCHANGED <<github, config, disk, outdated_repos, pass, passlog, passfinal,
                   upd, ua, epoch, budget, bvars, hvars>>

\* lines 483-485: the fetch returned, self.config is rebound to the new list
\* and save_config is called; or the fetch raised, nothing catches it and the
\* app ends
AddFetched ==
    /\ ui.pc = "addfetch"
    /\ LET r == FetchReleaseAssets(ui.repo)
       IN  IF r.raised
           THEN /\ ui' = [IdleUi EXCEPT !.pc = "crashed", !.repo = ui.repo]
                /\ UNCHANGED <<config, pass, upd, ua>>
           ELSE /\ ui' = [ui EXCEPT !.pc = "save"]
                /\ Rebind(AddedTo(config, ui.repo, r))
    /\ UNCHANGED <<github, disk, outdated_repos, passlog, passfinal, ops, epoch,
                   budget, bvars, hvars>>

\* the store without its entry at idx
Removed(store, idx) ==
    [k \in 1..(Len(store) - 1) |-> IF k < idx THEN store[k] ELSE store[k + 1]]

\* line 538: idx = self.list_view.index or 0.  Positions count from 1 here,
\* and index 0 stands for None, no highlighted item.
SelectedIdx(index) == IF index = 0 THEN 1 ELSE index

\* action_remove_repo, lines 537-545: the entry at the selected position is
\* deleted from the list in place and save_config is called; nothing happens
\* when the position is not one of the store
RemoveRepo(index) ==
    /\ Alive
    /\ ui.pc = "idle"
    /\ ops < budget
    /\ ops' = ops + 1
    /\ LET idx == SelectedIdx(index)
       IN  IF idx \in 1..Len(config)
           THEN /\ config' = Removed(config, idx)
                /\ ui' = [IdleUi EXCEPT !.pc = "save", !.idx = idx,
                                        !.repo = config[idx].repo]
           ELSE UNCHANGED <<config, ui>>
    /\ UNCHANGED <<github, disk, outdated_repos, pass, passlog, passfinal,
                   upd, ua, epoch, budget, bvars, hvars>>

\* save_config under add and remove, lines 49-50: the file is opened and the
\* list serialised
UiOpened ==
    /\ ui.pc = "save"
    /\ ui' = SaveOpened(ui)
    /\ disk' = Truncated
    /\ UNCHANGED <<github, config, outdated_repos, pass, passlog, passfinal,
                   upd, ua, ops, epoch, budget, bvars, hvars>>

\* lines 50, 486-488 and 543-545: the document is written, the list refreshed
UiSaved ==
    /\ ui.pc = "write"
    /\ disk' = Doc(ui.snap)
    /\ ui' = IdleUi
    /\ UNCHANGED <<github, config, outdated_repos, pass, passlog, passfinal,
                   upd, ua, ops, epoch, budget, bvars, hvars>>

\* action_refresh, lines 461-463: the handler awaits load_config
RefreshRepo ==
    /\ Alive
    /\ ui.pc = "idle"
    /\ ops < budget
    /\ ops' = ops + 1
    /\ ui' = [IdleUi EXCEPT !.pc = "load"]
    /\ UNCHANGED <<github, config, disk, outdated_repos, pass, passlog, passfinal,
                   upd, ua, epoch, budget, bvars, hvars>>

\* lines 41-46 and 463-466: the document is read and self.config rebound to
\* it; json.loads raises on the empty file and the app ends
RefreshLoaded ==
    /\ ui.pc = "load"
    /\ IF disk.torn
       THEN /\ ui' = [IdleUi EXCEPT !.pc = "crashed"]
            /\ UNCHANGED <<config, pass, upd, ua>>
       ELSE /\ ui' = IdleUi
            /\ Rebind(LoadConfig(disk))
    /\ UNCHANGED <<github, disk, outdated_repos, passlog, passfinal, ops, epoch,
                   budget, bvars, hvars>>

\* ---- single-item update: _update_repo_worker -----------------------------

IdleUpd ==
    [pc |-> "idle", idx |-> 0, repo |-> None, old_comment |-> <<>>,
     old_sha |-> NoneS, hashes |-> NoAssets, comment |-> <<>>, ok |-> FALSE,
     left |-> FALSE, frozen |-> FALSE, snap |-> <<>>, summary |-> NoSummary,
     named |-> None]

\* action_update_repo (lines 547-567): the confirmation dialog for the
\* selected entry is mounted; it names the coordinate and keeps the index
UpdateRepo(idx) ==
    /\ Alive
    /\ ui.pc = "idle"
    /\ ops < budget
    /\ upd.pc \in {"idle", "done", "crashed"}
    /\ idx \in 1..Len(config)
    /\ ops' = ops + 1
    /\ upd' = [IdleUpd EXCEPT !.pc = "dialog", !.idx = idx, !.named = config[idx].repo]
    /\ UNCHANGED <<github, config, disk, outdated_repos, pass, passlog, passfinal,
                   ui, ua, epoch, budget, bvars, hvars>>

\* line 571: the worker takes the entry at the index the dialog kept (0 when
\* the store has no such index and the subscript raises)
WorkerEntry(u) == IF u.idx <= Len(config) THEN u.idx ELSE 0

\* the confirmation (lines 495-510) creates the worker for the index kept in
\* the dialog; its first step (lines 571-585) reads the locals and awaits the
\* fetch, or the IndexError of self.config[idx] or of split()[3] ends the task
UpdateConfirmed ==
    /\ Alive
    /\ ui.pc = "idle"
    /\ upd.pc = "dialog"
    /\ LET idx == WorkerEntry(upd)
       IN  IF idx = 0
           THEN upd' = [IdleUpd EXCEPT !.pc = "crashed"]
           ELSE LET e == config[idx]
                    r == UpdateOldSha(e.comment)
                IN  upd' = IF r.raised
                           THEN [IdleUpd EXCEPT !.pc = "crashed", !.repo = e.repo,
                                                !.old_comment = e.comment]
                           ELSE [IdleUpd EXCEPT !.pc = "fetch", !.idx = idx,
                                                !.repo = e.repo,
                                                !.old_comment = e.comment,
                                                !.old_sha = r.sha]
    /\ UNCHANGED <<github, config, disk, outdated_repos, pass, passlog, passfinal,
                   ui, ua, ops, epoch, budget, bvars, hvars>>

\* an update that stores the new annotation and leaves the digests for later
UpdWriteAnnotationOnly(u) ==
    IF u.idx <= Len(config)
    THEN /\ config' = [config EXCEPT ![u.idx] = Entry(u.repo, u.comment, @.assets)]
         /\ upd' = [u EXCEPT !.pc = "save"]
    ELSE /\ upd' = [IdleUpd EXCEPT !.pc = "done", !.repo = u.repo,
                                   !.summary = u.summary]
         /\ UNCHANGED config

\* lines 595-596 and 604-609: self.config[idx] = ..., then save_config is
\* called; the IndexError of a store that has become shorter is caught
UpdWrite(u) ==
    IF u.idx <= Len(config)
    THEN /\ config' = [config EXCEPT ![u.idx] = Entry(u.repo, u.comment, u.hashes)]
         /\ upd' = [u EXCEPT !.pc = "save"]
    ELSE /\ upd' = [IdleUpd EXCEPT !.pc = "done", !.repo = u.repo,
                                   !.summary = u.summary]
         /\ UNCHANGED config

\* lines 584-592 and 604-609: the fetch returned or raised
UpdFetched ==
    /\ Alive
    /\ upd.pc = "fetch"
    /\ LET r == FetchReleaseAssets(upd.repo)
           u == [upd EXCEPT !.hashes = r.hashes, !.comment = r.comment]
       IN  IF r.raised
           THEN /\ upd' = [IdleUpd EXCEPT !.pc = "done", !.repo = upd.repo]
                /\ UNCHANGED config
           ELSE IF Truthy(upd.old_sha) /\ SplitWS(r.comment)[4] # upd.old_sha
           THEN /\ upd' = [u EXCEPT !.pc = "diff"]
                /\ UNCHANGED config
           ELSE UpdWrite(u)
    /\ UNCHANGED <<github, disk, outdated_repos, pass, passlog, passfinal, ui, ua,
                   ops, epoch, budget, bvars, hvars>>

\* lines 592-596 and 604-609: _show_repo_diff ran for the old identifier and
\* the fourth word of the new annotation, and returned; an exception that
\* left it would be caught at line 604
UpdShown ==
    /\ Alive
    /\ upd.pc = "diff"
    /\ LET r == ShowRepoDiff(upd.old_sha, SplitWS(upd.comment)[4],
                             github[upd.repo].diff)
       IN  IF r.raised
           THEN /\ upd' = [IdleUpd EXCEPT !.pc = "done", !.repo = upd.repo,
                                          !.summary = r]
                /\ UNCHANGED config
           ELSE UpdWrite([upd EXCEPT !.summary = r])
    /\ UNCHANGED <<github, disk, outdated_repos, pass, passlog, passfinal, ui, ua,
                   ops, epoch, budget, bvars, hvars>>

\* lines 598-600: the record of the updated item is deleted
UpdClearOutdated(d, repo) == IF repo \in DOMAIN d THEN DictDel(d, repo) ELSE d

\* save_config under the update, lines 49-50: the file is opened and the list
\* serialised
UpdOpened ==
    /\ Alive
    /\ upd.pc = "save"
    /\ upd' = SaveOpened(upd)
    /\ disk' = Truncated
    /\ UNCHANGED <<github, config, outdated_repos, pass, passlog, passfinal,
                   ui, ua, ops, epoch, budget, bvars, hvars>>

\* lines 50 and 598-609: the document is written, the record deleted, the
\* list refreshed
UpdSaved ==
    /\ Alive
    /\ upd.pc = "write"
    /\ disk' = Doc(upd.snap)
    /\ outdated_repos' = UpdClearOutdated(outdated_repos, upd.repo)
    /\ upd' = [IdleUpd EXCEPT !.pc = "done", !.repo = upd.repo, !.ok = TRUE,
                              !.summary = upd.summary,
                              !.left = (upd.repo \in DOMAIN outdated_repos')]
    /\ UNCHANGED <<github, config, pass, passlog, passfinal, ui, ua, ops, epoch,
                   budget, bvars, hvars>>

\* ---- update-all: _update_all_worker --------------------------------------

IdleUa ==
    [pc |-> "idle", i |-> 0, repo |-> None, update_count |-> 0, error_count |-> 0,
     updated |-> {}, left |-> {}, total |-> 0, visited |-> <<>>,
     frozen |-> FALSE, snap |-> <<>>]

\* lines 645-650: the loop body up to the await of the fetch, for item i of
\* the list being iterated
UaIteration(rec, i, list) ==
    [rec EXCEPT !.pc = "fetch", !.i = i, !.repo = list[i].repo,
                !.visited = Append(@, list[i].repo)]

\* action_update_all and the confirmation (lines 611-625, 503-505) create the
\* worker; its first step (lines 628-650) sets the counters and the loading
\* indicators, one for each of the entries, and runs the first iteration up
\* to its fetch
UpdateAll ==
    /\ Alive
    /\ ui.pc = "idle"
    /\ ops < budget
    /\ ua.pc \in {"idle", "done"}
    /\ ops' = ops + 1
    /\ ua' = IF Len(config) = 0 THEN [IdleUa EXCEPT !.pc = "save"]
             ELSE UaIteration([IdleUa EXCEPT !.total = Len(config)], 1, config)
    /\ UNCHANGED <<github, config, disk, outdated_repos, pass, passlog, passfinal,
                   ui, upd, epoch, budget, bvars, hvars>>

\* lines 650-658: the fetch returned or raised; self.config[i] = ... raises
\* too when the store has become shorter; the next iteration runs up to its
\* fetch, or the iterator is exhausted and save_config is called
UaFetched ==
    /\ Alive
    /\ ua.pc = "fetch"
    /\ LET r == FetchReleaseAssets(ua.repo)
           failed == r.raised \/ ua.i > Len(config)
           rec == IF failed
                  THEN [ua EXCEPT !.error_count = @ + 1]
                  ELSE [ua EXCEPT !.update_count = @ + 1, !.updated = @ \cup {ua.repo}]
           list == IF ua.frozen THEN ua.snap ELSE config'
       IN  /\ config' = IF failed THEN config
                        ELSE [config EXCEPT ![ua.i] = Entry(ua.repo, r.comment, r.hashes)]
           /\ ua' = IF ua.i < Len(list)
                    THEN UaIteration(rec, ua.i + 1, list)
                    ELSE [rec EXCEPT !.pc = "save", !.frozen = FALSE, !.snap = <<>>]
    /\ UNCHANGED <<github, disk, outdated_repos, pass, passlog, passfinal, ui, upd,
                   ops, epoch, budget, bvars, hvars>>

\* save_config under update-all, lines 49-50: the file is opened and the list
\* serialised
UaOpened ==
    /\ Alive
    /\ ua.pc = "save"
    /\ ua' = SaveOpened(ua)
    /\ disk' = Truncated
    /\ UNCHANGED <<github, config, outdated_repos, pass, passlog, passfinal,
                   ui, upd, ops, epoch, budget, bvars, hvars>>

\* lines 50 and 659-665: the document is written, the list refreshed
UaSaved ==
    /\ Alive
    /\ ua.pc = "write"
    /\ disk' = Doc(ua.snap)
    /\ ua' = [ua EXCEPT !.pc = "done", !.i = 0, !.repo = None,
                        !.frozen = FALSE, !.snap = <<>>,
                        !.left = ua.updated \cap DOMAIN outdated_repos]
    /\ UNCHANGED <<github, config, outdated_repos, pass, passlog, passfinal, ui,
                   upd, ops, epoch, budget, bvars, hvars>>

\* ---- the requests of one fetch: fetch_latest_release_assets ----------------
\* configmanager.py lines 78-103, request by request.  The release of the
\* run has at most MaxAssets assets; each download gives a digest or fails.

MaxAssets == 2

Releases == UNION {[1..n -> {"d2", None}] : n \in 0..MaxAssets}

IdleFetch ==
    [pc |-> "off", repo |-> None, assets |-> <<>>, wire |-> {}, log |-> <<>>,
     hashes |-> <<>>]

\* session.get is called: the request is on the wire
Sent(f, req) == [f EXCEPT !.wire = @ \cup {req}, !.log = Append(@, <<"send", req>>)]

\* the awaited response is there
Received(f, req) == [f EXCEPT !.wire = @ \ {req}, !.log = Append(@, <<"recv", req>>)]

\* lines 79-80: the repository request is on the wire
InitFetch ==
    \E repo \in Repos : \E rel \in Releases :
       fetching = Sent([IdleFetch EXCEPT !.pc = "repo", !.repo = repo, !.assets = rel],
                       Req("repo", 0))

\* lines 80-84: the repository request is answered (or raises); the branch
\* request is sent
FetchRepoAnswered ==
    /\ fetching.pc = "repo"
    /\ LET f == Received(fetching, Req("repo", 0))
       IN  fetching' = IF github[fetching.repo].status = "down"
                       THEN [f EXCEPT !.pc = "raised"]
                       ELSE Sent([f EXCEPT !.pc = "branch"], Req("branch", 0))
    /\ UNCHANGED <<resp, sha256, hashing, bvars, mvars>>

\* lines 84-90: the branch request is answered; br['commit'] raises on an
\* error body; the release request is sent
FetchBranchAnswered ==
    /\ fetching.pc = "branch"
    /\ LET f == Received(fetching, Req("branch", 0))
       IN  fetching' = IF github[fetching.repo].status # "ok"
                       THEN [f EXCEPT !.pc = "raised"]
                       ELSE Sent([f EXCEPT !.pc = "release"], Req("release", 0))
    /\ UNCHANGED <<resp, sha256, hashing, bvars, mvars>>

\* a fetch that starts all downloads of the release at once
FetchReleaseAnsweredGathering ==
    /\ fetching.pc = "release"
    /\ LET f == Received(fetching, Req("release", 0))
           reqs == { Req("asset", k) : k \in 1..Len(fetching.assets) }
       IN  fetching' = IF ~github[fetching.repo].release \/ fetching.assets = <<>>
                       THEN [f EXCEPT !.pc = "returned"]
                       ELSE [f EXCEPT !.pc = "asset", !.wire = reqs,
                                      !.log = @ \o <<<<"send", Req("asset", 1)>>>>]
    /\ UNCHANGED <<resp, sha256, hashing, bvars, mvars>>

\* lines 90-97: the release request is answered; a status other than 200
\* returns {}; else the first download is sent
FetchReleaseAnswered ==
    /\ fetching.pc = "release"
    /\ LET f == Received(fetching, Req("release", 0))
       IN  fetching' = IF ~github[fetching.repo].release \/ fetching.assets = <<>>
                       THEN [f EXCEPT !.pc = "returned"]
                       ELSE Sent([f EXCEPT !.pc = "asset"], Req("asset", 1))
    /\ UNCHANGED <<resp, sha256, hashing, bvars, mvars>>

\* lines 95-103: a download is answered, its digest (or None) is stored, and
\* the loop sends the next download or the function returns
FetchAssetAnswered(k) ==
    /\ fetching.pc = "asset"
    /\ Req("asset", k) \in fetching.wire
    /\ LET f == [Received(fetching, Req("asset", k)) EXCEPT
                    !.hashes = Append(@, fetching.assets[k])]
       IN  fetching' = IF k < Len(fetching.assets) /\ Req("asset", k + 1) \notin f.wire
                       THEN Sent(f, Req("asset", k + 1))
                       ELSE IF f.wire = {} THEN [f EXCEPT !.pc = "returned"]
                       ELSE f
    /\ UNCHANGED <<resp, sha256, hashing, bvars, mvars>>

NextFetch ==
    \/ FetchRepoAnswered
    \/ FetchBranchAnswered
    \/ FetchReleaseAnswered
    \/ \E k \in 1..MaxAssets : FetchAssetAnswered(k)

\* ---- the streaming digest ------------------------------------------------
\* fetch_stream_hash (generate2.py, lines 40-56) and fetch_asset_hash
\* (configmanager.py, lines 61-76) run the same loop.  A byte is 0 or 1, the
\* body has at most MaxBytes bytes, iter_chunked(1024) hands out chunks of at
\* most ChunkLimit bytes, and the digest works on blocks of BlockSize bytes.

MaxBytes == 4

ChunkLimit == 3

BlockSize == 2

Bytes == {0, 1}

Contents == UNION {[1..n -> Bytes] : n \in 0..MaxBytes}

RECURSIVE BlockValue(_)
BlockValue(block) ==
    IF block = <<>> THEN 0 ELSE 3 * BlockValue(Tail(block)) + Head(block) + 1

\* the compression of one block into the chaining value
Compress(h, block) == (3 * h + BlockValue(block) + 1) % 251

\* hashlib.sha256(): nothing absorbed yet
Sha256New == [h |-> 17, buf |-> <<>>, n |-> 0]

\* every complete block of the data is compressed, the rest stays buffered
RECURSIVE Absorb(_, _)
Absorb(h, data) ==
    IF Len(data) < BlockSize
    THEN [h |-> h, buf |-> data]
    ELSE Absorb(Compress(h, SubSeq(data, 1, BlockSize)),
                SubSeq(data, BlockSize + 1, Len(data)))

\* an accumulator that compresses what it was given at once and buffers nothing
Sha256UpdateUnbuffered(acc, chunk) ==
    [h |-> Compress(acc.h, acc.buf \o chunk), buf |-> <<>>, n |-> acc.n + Len(chunk)]

\* sha256.update(chunk)
Sha256Update(acc, chunk) ==
    LET a == Absorb(acc.h, acc.buf \o chunk)
    IN  [h |-> a.h, buf |-> a.buf, n |-> acc.n + Len(chunk)]

\* sha256.hexdigest(): the buffered rest and the length are compressed last
Sha256Hexdigest(acc) == Compress(Compress(acc.h, acc.buf), <<acc.n % 2, acc.n \div 2>>)

\* os.getenv("GITHUB_TOKEN"): None when the variable is unset, else its value,
\* which may be the empty string
Tokens == {NoneS, <<>>, <<"g", "h", "p", "_", "1">>}

\* f"{token}"
Formatted(token) == IF token = NoneS THEN <<"N", "o", "n", "e">> ELSE token

\* HEADERS, generate2.py lines 15-19 and configmanager.py lines 31-35
HEADERS(token) ==
    [name \in {"Authorization", "Accept", "User-Agent"} |->
        IF name = "Authorization" THEN <<"t", "o", "k", "e", "n", " ">> \o Formatted(token)
        ELSE IF name = "Accept"
        THEN <<"application/vnd.github+json">>
        ELSE <<"carbonrepo-generator">>]

\* generate2.py lines 44-46 and 124, configmanager.py lines 65-67: the headers
\* of the download request
DownloadHeaders(token) ==
    DictSet(DictSet(HEADERS(token), "Cache-Control", <<"no-cache, no-store">>),
            "Pragma", <<"no-cache">>)

IdleHash ==
    [pc |-> "off", token |-> NoneS, headers |-> EmptyDict, content |-> <<>>,
     chunks |-> <<>>, result |-> None, raised |-> FALSE, observed |-> None]

\* no digest is being computed
HashOff ==
    /\ resp = [status |-> 200, body |-> <<>>]
    /\ sha256 = Sha256New
    /\ hashing = IdleHash
    /\ fetching = IdleFetch

\* lines 41-48: the accumulator is new and the request is on the wire
InitHash ==
    /\ fetching = IdleFetch
    /\ \E st \in {200, 404} : \E c \in Contents : \E token \in Tokens :
          /\ resp = [status |-> st, body |-> c]
          /\ hashing = [IdleHash EXCEPT !.pc = "request", !.content = c,
                                        !.token = token,
                                        !.headers = DownloadHeaders(token)]
    /\ sha256 = Sha256New

\* lines 48-51: the response arrives; any status but 200 raises
HashResponse ==
    /\ hashing.pc = "request"
    /\ hashing' = [hashing EXCEPT !.pc = IF resp.status # 200 THEN "raised" ELSE "reading",
                                  !.raised = (resp.status # 200)]
    /\ UNCHANGED <<resp, sha256, fetching, bvars, mvars>>

\* lines 53-54: the iterator hands out the next chunk, which is folded in
HashChunk ==
    /\ hashing.pc = "reading"
    /\ resp.body # <<>>
    /\ \E k \in 1..ChunkLimit :
          /\ k <= Len(resp.body)
          /\ LET chunk == SubSeq(resp.body, 1, k)
             IN  /\ sha256' = Sha256Update(sha256, chunk)
                 /\ resp' = [resp EXCEPT !.body = SubSeq(resp.body, k + 1, Len(resp.body))]
                 /\ hashing' = [hashing EXCEPT !.chunks = Append(hashing.chunks, chunk)]
    /\ UNCHANGED <<fetching, bvars, mvars>>

\* a loop that ends when the connection breaks and goes on to the return
HashBrokenReturning ==
    /\ hashing.pc = "reading"
    /\ resp.body # <<>>
    /\ hashing' = [hashing EXCEPT !.pc = "returned", !.result = Sha256Hexdigest(sha256)]
    /\ UNCHANGED <<resp, sha256, fetching, bvars, mvars>>

\* line 53: the connection breaks while the body is read; the iterator raises
HashBroken ==
    /\ hashing.pc = "reading"
    /\ resp.body # <<>>
    /\ hashing' = [hashing EXCEPT !.pc = "raised", !.raised = TRUE]
    /\ UNCHANGED <<resp, sha256, fetching, bvars, mvars>>

\* lines 53-56: the stream is exhausted and the digest is returned
HashReturn ==
    /\ hashing.pc = "reading"
    /\ resp.body = <<>>
    /\ hashing' = [hashing EXCEPT !.pc = "returned", !.result = Sha256Hexdigest(sha256)]
    /\ UNCHANGED <<resp, sha256, fetching, bvars, mvars>>

\* download_asset_and_hash, generate2.py lines 122-140 (configmanager.py
\* lines 95-101): the caller records the digest, or None when the hashing raised
HashRecorded ==
    /\ hashing.pc \in {"returned", "raised"}
    /\ hashing' = [hashing EXCEPT !.pc = "recorded",
                                  !.observed = IF hashing.raised THEN None
                                               ELSE hashing.result]
    /\ UNCHANGED <<resp, sha256, fetching, bvars, mvars>>

NextHash ==
    \/ HashResponse
    \/ HashChunk
    \/ HashBroken
    \/ HashReturn
    \/ HashRecorded

\* ---- the specifications ---------------------------------------------------

\* the manager is not running
MgrOff ==
    /\ github = [r \in Repos |-> CatalogueOf(r).up]
    /\ config = <<>>
    /\ disk = Doc(<<>>)
    /\ outdated_repos = EmptyDict
    /\ pass = [p \in Passes |-> IdlePass]
    /\ passlog = [p \in Passes |-> <<>>]
    /\ passfinal = [p \in Passes |-> NoFinal]
    /\ ui = IdleUi
    /\ upd = IdleUpd
    /\ ua = IdleUa
    /\ ops = 0
    /\ epoch = 0
    /\ budget = 0

\* batch verification is not running
BatchOff ==
    /\ upstream = [i \in Items |-> GoneWorld]
    /\ expected = [i \in Items |-> ExpectedOf]
    /\ mainpc = "off"
    /\ sema = SemaCapacity
    /\ waiters = <<>>
    /\ pc = [i \in Items |-> "new"]
    /\ inflight = [i \in Items |-> {}]
    /\ downloads = [i \in Items |-> <<>>]
    /\ acquired = [i \in Items |-> 0]
    /\ released = [i \in Items |-> 0]
    /\ ret = [i \in Items |-> NoReturn]
    /\ processed_count = 0
    /\ mismatch_count = 0
    /\ error_found = FALSE
    /\ exit_code = -1
    /\ jsons = <<>>
    /\ queued = <<>>

\* the store holds NumRepos consecutive entries of the catalogue
StoreFrom(first) ==
    [k \in 1..NumRepos |->
        LET c == Catalogue[((first + k - 2) % Len(Catalogue)) + 1]
        IN  Entry(c.repo, c.comment, c.assets)]

\* the startup pass after its first step: at its first fetch, or finished
\* when the store is empty
StartupPass(store) ==
    IF store = <<>> THEN [IdlePass EXCEPT !.pc = "done", !.gen = 1]
    ELSE FirstIteration(store, 1)

\* __init__ and on_mount (lines 443-459): the store is loaded, the startup
\* pass is created and has taken its first step (lines 674-705).  The first
\* step is already scheduled when on_mount returns; a handler that starts
\* before it reads the same store and the same, empty, drift set.  The user
\* will start at most b operations.
MgrStart(b) ==
    /\ github = [r \in Repos |-> CatalogueOf(r).up]
    /\ \/ \E first \in 1..Len(Catalogue) :
             /\ disk = Doc(StoreFrom(first))
             /\ config = LoadConfig(disk)
       \/ /\ disk = Absent
          /\ config = LoadConfig(disk)
    /\ outdated_repos = EmptyDict
    /\ pass = [p \in Passes |-> IF p = 1 THEN StartupPass(config) ELSE IdlePass]
    /\ passlog = [p \in Passes |-> <<>>]
    /\ passfinal = [p \in Passes |->
                       IF p = 1 /\ config = <<>>
                       THEN [done |-> TRUE, records |-> EmptyDict, store |-> <<>>]
                       ELSE NoFinal]
    /\ ui = IdleUi
    /\ upd = IdleUpd
    /\ ua = IdleUa
    /\ ops = 0
    /\ epoch = 1
    /\ budget = b

InitMgr == MgrStart(MaxOps)

NextMgr ==
    \/ \E p \in Passes : CheckUpdates(p)
    \/ \E p \in Passes : PassFetched(p)
    \/ \E p \in Passes : PassWake(p)
    \/ \E idx \in 1..Len(config) : ViewDiff(idx)
    \/ ViewFetched
    \/ ViewShown
    \/ \E repo \in Repos : AddRepo(repo)
    \/ AddFetched
    \/ \E index \in 0..(Len(config) + 1) : RemoveRepo(index)
    \/ UiOpened
    \/ UiSaved
    \/ RefreshRepo
    \/ RefreshLoaded
    \/ \E idx \in 1..Len(config) : UpdateRepo(idx)
    \/ UpdateConfirmed
    \/ UpdFetched
    \/ UpdShown
    \/ UpdOpened
    \/ UpdSaved
    \/ UpdateAll
    \/ UaFetched
    \/ UaOpened
    \/ UaSaved

Init == InitMgr /\ BatchOff /\ HashOff

\* the config manager
Spec == Init /\ [][NextMgr]_vars

\* the store's operations only, with the startup pass still running
InitStore == MgrStart(MaxStoreOps) /\ BatchOff /\ HashOff

NextStore ==
    \/ \E p \in Passes : PassFetched(p)
    \/ \E p \in Passes : PassWake(p)
    \/ \E repo \in Repos : AddRepo(repo)
    \/ AddFetched
    \/ \E index \in 0..(Len(config) + 1) : RemoveRepo(index)
    \/ UiOpened
    \/ UiSaved
    \/ RefreshRepo
    \/ RefreshLoaded
    \/ \E idx \in 1..Len(config) : UpdateRepo(idx)
    \/ UpdateConfirmed
    \/ UpdFetched
    \/ UpdShown
    \/ UpdOpened
    \/ UpdSaved
    \/ UpdateAll
    \/ UaFetched
    \/ UaOpened
    \/ UaSaved

\* the config manager while the user only edits the store
SpecStore == InitStore /\ [][NextStore]_vars

\* the identifiers a change summary is asked for: None, '', and strings of
\* 5, 6, 7 and 10 characters
ShaInputs ==
    {NoneS, <<>>, Main \o <<":">>, SubSeq(Sha_aaaa111, 1, 6), Sha_aaaa111,
     Sha_abc1234567}

\* the answers of the upstream to the summary's three requests
DiffWorlds ==
    { DiffAnswers(c, o, n) : c \in {"200", "404", "403", "500", "raise"},
                             o \in {"200", "404", "raise"},
                             n \in {"200", "404", "raise"} }

\* view-diff is about to call _show_repo_diff(repo, old_sha, new_sha) for
\* the first entry of the store (lines 783 and 815)
InitDiff ==
    /\ BatchOff
    /\ HashOff
    /\ \E d \in DiffWorlds :
          github = [r \in Repos |-> IF r = Catalogue[1].repo
                                    THEN WithDiff(CatalogueOf(r).up, d)
                                    ELSE CatalogueOf(r).up]
    /\ config = StoreFrom(1)
    /\ disk = Doc(config)
    /\ outdated_repos = EmptyDict
    /\ pass = [p \in Passes |-> IdlePass]
    /\ passlog = [p \in Passes |-> <<>>]
    /\ passfinal = [p \in Passes |-> NoFinal]
    /\ \E o \in ShaInputs : \E n \in ShaInputs :
          ui = [IdleUi EXCEPT !.pc = "diff", !.idx = 1, !.repo = Catalogue[1].repo,
                              !.old_sha = o, !.new_sha = n]
    /\ upd = IdleUpd
    /\ ua = IdleUa
    /\ ops = 0
    /\ epoch = 0
    /\ budget = 0

NextDiff == ViewShown

\* the change summary on every pair of identifiers and every answer
SpecDiff == InitDiff /\ [][NextDiff]_vars

BatchInit == InitBatch /\ MgrOff /\ HashOff

\* batch verification of a short config
InitVerify == VerifyInit /\ MgrOff /\ HashOff

SpecVerify == InitVerify /\ [][NextBatch]_vars

\* batch verification
SpecBatch == BatchInit /\ [][NextBatch]_vars

\* the run over the entry whose downloads fill the connector
InitPool == PoolInit /\ MgrOff /\ HashOff

SpecPool == InitPool /\ [][NextBatch]_vars

\* a run over more entries than the semaphore has units; the entry that
\* answers is the one that has to wait
LiveInit ==
    /\ InitBatch
    /\ upstream[NumItems] \in LiveWorlds
    /\ MgrOff
    /\ HashOff

\* the event loop runs every task that is ready, and every request that holds
\* a connection is answered, with success or failure
BatchFairness ==
    /\ WF_vars(StartAll)
    /\ WF_vars(MainExit)
    /\ \A i \in Items :
          /\ WF_vars(RepoResp(i))
          /\ WF_vars(LatestResp(i))
          /\ WF_vars(AllResp(i))
          /\ WF_vars(\E k \in 1..Len(upstream[i].assets) : AssetResp(i, k))
          /\ \A kind \in {"contrib", "social"} :
                WF_vars(ExtraResp(i, kind)) /\ WF_vars(OrphanResp(i, kind))

\* the batch run under that scheduling
SpecLive == LiveInit /\ [][NextBatch]_vars /\ BatchFairness

\* the run that fills the connector under that scheduling
SpecPoolLive == InitPool /\ [][NextBatch]_vars /\ BatchFairness

\* one run of fetch_stream_hash on any body, split into chunks in any way
HashInit == InitHash /\ MgrOff /\ BatchOff

FetchInit ==
    /\ InitFetch
    /\ resp = [status |-> 200, body |-> <<>>]
    /\ sha256 = Sha256New
    /\ hashing = IdleHash
    /\ MgrOff
    /\ BatchOff

\* one run of fetch_latest_release_assets for any coordinate and release
SpecFetch == FetchInit /\ [][NextFetch]_vars

SpecHash == HashInit /\ [][NextHash]_vars

\* ---- properties of the reconciliation pass --------------------------------

\* the shas the catalogue uses
ShaSamples ==
    {Sha_aaaa111, Sha_bbbb222, Sha_abc1234, Sha_ABC1234, Sha_abc1234567, Sha_def5678}

\* two shas name the same commit: equal up to case, or one a prefix of the
\* other
SameCommit(a, b) == Lower(a) = Lower(b) \/ StartsWith(a, b) \/ StartsWith(b, a)

\* the items a pass has counted, in the order it counted them
Counted(p) == { passlog[p][k] : k \in 1..Len(passlog[p]) }

\* the comparison of lines 709-724 on every pair of the catalogue's shas, in
\* both orders
ComparisonIsSymmetric ==
    \A a \in ShaSamples : \A b \in ShaSamples :
       /\ Classify(a, b) = Classify(b, a)
       /\ (Classify(a, b) = "outdated") <=> ~SameCommit(a, b)

\* C5: an item a pass counted with both shas present is recorded Outdated
\* exactly when the two shas are not the same commit; the comparison gives
\* the same answer with its arguments exchanged; and a record a pass wrote
\* carries the old and the new sha the pass compared.
C5_OutdatedIffDifferentCommit ==
    /\ ComparisonIsSymmetric
    /\ \A p \in Passes : \A e \in Counted(p) :
          (~e.raised /\ Truthy(e.old_sha) /\ Truthy(e.new_sha))
             => ((e.class = "outdated") <=> ~SameCommit(e.old_sha, e.new_sha))
    /\ \A r \in DOMAIN outdated_repos :
          outdated_repos[r].by \in Passes
             => \E e \in Counted(outdated_repos[r].by) :
                   /\ e.repo = r
                   /\ e.class = "outdated"
                   /\ e.old_sha = outdated_repos[r].old_sha
                   /\ e.new_sha = outdated_repos[r].new_sha

\* C5: a pass has recorded foo/bar Outdated with old_sha aaaa111 and new_sha
\* bbbb222, and has counted o/case (abc1234 against ABC1234) up to date.
C5_Witness ==
    \E p \in Passes :
       /\ \E e \in Counted(p) :
             /\ e.repo = "foo/bar" /\ e.class = "outdated"
             /\ e.old_sha = Sha_aaaa111 /\ e.new_sha = Sha_bbbb222
       /\ \E e \in Counted(p) :
             /\ e.repo = "o/case" /\ e.class = "uptodate"
             /\ e.old_sha = Sha_abc1234 /\ e.new_sha = Sha_ABC1234
       /\ "foo/bar" \in DOMAIN outdated_repos
       /\ outdated_repos["foo/bar"].by = p
       /\ outdated_repos["foo/bar"].old_sha = Sha_aaaa111
       /\ outdated_repos["foo/bar"].new_sha = Sha_bbbb222

\* C6: an item whose stored sha could not be extracted, or whose fetched sha
\* is missing or empty, is counted as an error by the pass.
C6_MissingShaIsError ==
    \A p \in Passes : \A e \in Counted(p) :
       (~Truthy(e.old_sha) \/ ~Truthy(e.new_sha)) => e.class = "error"

\* the items of a store whose stored sha and upstream sha are both there and
\* are different commits
Drifted(store) ==
    { store[k].repo : k \in
        { j \in 1..Len(store) :
            /\ github[store[j].repo].status = "ok"
            /\ Truthy(ExtractSha(store[j].comment))
            /\ Truthy(github[store[j].repo].sha)
            /\ ~SameCommit(ExtractSha(store[j].comment), github[store[j].repo].sha) } }

\* what a finished pass counted
CountedTotal(p) == pass[p].update_count + pass[p].outdated_count + pass[p].error_count

\* C7: when a pass finishes, the drift set holds one record for each drifted
\* item of the store and no other, and the three counters add up to the
\* number of items.
C7_RecordsAreTheDrifted ==
    \A p \in Passes :
       passfinal[p].done =>
          /\ DOMAIN passfinal[p].records = Drifted(passfinal[p].store)
          /\ CountedTotal(p) = Len(passfinal[p].store)

C9_UpdatedItemHasNoRecord ==
    /\ (upd.pc = "done" /\ upd.ok) => ~upd.left
    /\ ua.pc = "done" => ua.left = {}

\* ---- properties of the annotation ------------------------------------------

\* "Last commit on <branch>: <sha> @ <timestamp>"
Canonical(c) ==
    \E b \in {Main, Dev} : \E s \in ShaSamples : \E d \in {Date1, Date2} :
       c = Comment(b, s, d)

\* the sha a canonical annotation embeds
ShaOf(c) ==
    CHOOSE s \in ShaSamples :
       \E b \in {Main, Dev} : \E d \in {Date1, Date2} : c = Comment(b, s, d)

\* C10: the pass, view-diff and the single-item update each read exactly the
\* embedded sha out of a canonical annotation, and the read never raises out
\* of the operation.
C10_ReadersObtainTheSha ==
    /\ \A p \in Passes :
          /\ \A e \in Counted(p) :
                Canonical(e.old_comment) => e.old_sha = ShaOf(e.old_comment)
          /\ (pass[p].pc = "fetch" /\ Canonical(pass[p].old_comment))
                => pass[p].old_sha = ShaOf(pass[p].old_comment)
    /\ (ui.pc = "fetch" /\ Canonical(ui.old_comment))
          => ui.old_sha = ShaOf(ui.old_comment)
    /\ (upd.pc \in {"fetch", "diff", "save"} /\ Canonical(upd.old_comment))
          => upd.old_sha = ShaOf(upd.old_comment)
    /\ upd.pc # "crashed"

\* ---- properties of the batches over the store ------------------------------

\* C15: a reconciliation pass or an update-all that has finished has
\* attempted every one of the N items it set out with and has recorded
\* exactly one outcome for each of them
C15_OneOutcomePerItem ==
    /\ \A p \in Passes :
          pass[p].pc = "done" =>
             /\ Len(passlog[p]) = pass[p].total_count
             /\ pass[p].outdated_count + pass[p].update_count + pass[p].error_count
                   = pass[p].total_count
    /\ ua.pc = "done" =>
          /\ Len(ua.visited) = ua.total
          /\ ua.update_count + ua.error_count = ua.total

\* the repository and branch requests for the coordinate are answered with a
\* non-2xx status
MetadataRefused(repo) == github[repo].status = "error"

\* the release request for the coordinate is answered with a non-2xx status
ReleaseRefused(repo) == github[repo].status = "ok" /\ ~github[repo].release

\* C16: an item whose repository, branch or release request was answered
\* with a non-2xx status is counted as an error by the pass, and is neither
\* counted as updated by update-all nor reported as updated by the update
C16_RefusedRequestIsError ==
    /\ \A p \in Passes : \A k \in 1..Len(passlog[p]) :
          MetadataRefused(passlog[p][k].repo) => passlog[p][k].class = "error"
    /\ \A repo \in ua.updated : ~MetadataRefused(repo) /\ ~ReleaseRefused(repo)
    /\ upd.ok => ~MetadataRefused(upd.repo) /\ ~ReleaseRefused(upd.repo)

\* ---- properties of the store ------------------------------------------------

\* C17: no coordinate appears in more than one entry of the store
C17_UniqueCoordinates ==
    \A j \in 1..Len(config) : \A k \in 1..Len(config) :
       j # k => config[j].repo # config[k].repo

\* the entries of a store
EntriesOf(store) == { store[k] : k \in 1..Len(store) }

\* the fetch sequence of a coordinate raises
FetchRaises(repo) == FetchReleaseAssets(repo).raised

\* the entry made of the complete result of a coordinate's fetch sequence
FetchedEntry(repo) ==
    LET r == FetchReleaseAssets(repo) IN Entry(repo, r.comment, r.hashes)

\* C18: the step in which the fetch of an add, a single update or an
\* update-all item raises leaves the store and the document as they are, and
\* every entry that appears in the store is the complete result of the fetch
\* sequence of its coordinate (or was loaded from the document by a refresh)
C18_MutationOnlyAfterFetch ==
    [][ /\ (ui.pc = "addfetch" /\ ui'.pc # "addfetch" /\ FetchRaises(ui.repo))
              => (config' = config /\ disk' = disk)
        /\ (upd.pc = "fetch" /\ upd'.pc # "fetch" /\ FetchRaises(upd.repo))
              => (config' = config /\ disk' = disk)
        /\ (ua.pc = "fetch" /\ (ua'.i # ua.i \/ ua'.pc # "fetch") /\ FetchRaises(ua.repo))
              => (config' = config /\ disk' = disk)
        /\ \A e \in EntriesOf(config') \ EntriesOf(config) :
              \/ ~FetchRaises(e.repo) /\ e = FetchedEntry(e.repo)
              \/ ui.pc = "load" /\ e \in EntriesOf(LoadConfig(disk))
      ]_vars

\* an update-all has finished in which one item was rewritten and the fetch
\* of another raised; the entry of the latter is the same in the store and in
\* the document
C18_Witness ==
    /\ ua.pc = "done"
    /\ ua.update_count > 0
    /\ ua.error_count > 0
    /\ \E k \in 1..Len(config) :
          /\ FetchRaises(config[k].repo)
          /\ ~disk.torn
          /\ k <= Len(LoadConfig(disk))
          /\ LoadConfig(disk)[k] = config[k]
          /\ config[k].assets = CatalogueOf(config[k].repo).assets
          /\ config[k].comment = CatalogueOf(config[k].repo).comment

\* no handler and no worker is between its start and its completion
Quiescent ==
    /\ ui.pc = "idle"
    /\ upd.pc \in {"idle", "done", "crashed"}
    /\ ua.pc \in {"idle", "done"}

\* C19: once the mutating operations that were started have completed, the
\* persisted document equals the in-memory store
C19_PersistedEqualsStore == Quiescent => disk = Doc(config)

\* the fetched digests agree with the digests recorded in the entry, for the
\* asset names both have
AgreesWithRecorded(hashes, entry) ==
    \A n \in DOMAIN hashes \cap DOMAIN entry.assets : hashes[n] = entry.assets[n]

\* C20: a single update or an update-all step replaces the entry of an item
\* only when each freshly fetched digest agrees with the digest that was
\* recorded for that asset name
C20_ValidatedAgainstRecorded ==
    [][ /\ (upd.pc \in {"fetch", "diff"} /\ upd'.pc = "save"
             /\ config[upd.idx].repo = upd.repo)
              => AgreesWithRecorded(config'[upd.idx].assets, config[upd.idx])
        /\ (ua.pc = "fetch" /\ ua'.update_count > ua.update_count
             /\ config[ua.i].repo = ua.repo)
              => AgreesWithRecorded(config'[ua.i].assets, config[ua.i])
      ]_vars

\* ---- properties of items without a release ----------------------------------

\* the repository of batch item i answers and has no published release:
\* releases/latest is refused and the list of releases is empty
NoPublishedRelease(i) ==
    upstream[i].repo /\ ~upstream[i].latest /\ upstream[i].all = "empty"

\* the entry add and update store for a coordinate without a release
EmptyEntry(repo) == Entry(repo, FetchedEntry(repo).comment, NoAssets)

\* the step in which the fetch of an add, an update or an update-all item
\* returns for a coordinate without a release: the entry is stored with an
\* empty asset map and nothing is counted as failed
NoReleaseStep ==
    /\ (ui.pc = "addfetch" /\ ui'.pc # "addfetch" /\ ReleaseRefused(ui.repo))
          => /\ ui'.pc = "save"
             /\ config'[Len(config')] = EmptyEntry(ui.repo)
    /\ (upd.pc = "fetch" /\ upd'.pc # "fetch" /\ ReleaseRefused(upd.repo)
         /\ upd.idx <= Len(config))
          => upd'.pc \in {"diff", "save"}
    /\ (upd.pc \in {"fetch", "diff"} /\ upd'.pc = "save" /\ ReleaseRefused(upd.repo))
          => config'[upd.idx] = EmptyEntry(upd.repo)
    /\ (ua.pc = "fetch" /\ (ua'.i # ua.i \/ ua'.pc # "fetch")
         /\ ReleaseRefused(ua.repo) /\ ua.i <= Len(config))
          => /\ ua'.error_count = ua.error_count
             /\ ua'.update_count = ua.update_count + 1
             /\ config'[ua.i] = EmptyEntry(ua.repo)

\* batch verification has returned for an item without a release: it has a
\* result with no downloads, and it failed only if another of its requests
\* was refused
NoReleaseResult ==
    \A i \in Items :
       (pc[i] = "done" /\ NoPublishedRelease(i)) =>
          /\ downloads[i] = <<>>
          /\ ret[i].mismatched = 0
          /\ ret[i].json = ~ItemFails(i)
          /\ ret[i].error = ItemFails(i)

LongEnough(sha) == sha # NoneS /\ sha # <<>> /\ Len(sha) >= 7

\* the fallback path was entered: a commit request was issued
FellBack(r) == Len(r.requests) >= 2

\* a run of the summary for (old_sha, new_sha) against answers d ended with
\* r: requests only for a valid range, else the invalid-range error, no
\* request and no report
FailsFast(old_sha, new_sha, r) ==
    /\ r.requests # <<>> => (LongEnough(old_sha) /\ LongEnough(new_sha))
    /\ ~(LongEnough(old_sha) /\ LongEnough(new_sha)) =>
          /\ r.notified = "invalid"
          /\ r.requests = <<>>
          /\ r.report = "none"

\* C22: a change summary issues upstream requests only when both
\* identifiers are present and at least 7 characters long; otherwise it ends
\* at once with the invalid-range error, without a request and without a
\* report
C22_InvalidRangeFailsFast ==
    [][ /\ (ui.pc = "diff" /\ ui'.pc # "diff")
              => FailsFast(ui.old_sha, ui.new_sha, ui'.summary)
        /\ (upd.pc = "diff" /\ upd'.pc # "diff")
              => FailsFast(upd.old_sha, SplitWS(upd.comment)[4], upd'.summary)
      ]_vars

\* a summary has ended with the invalid-range error and without a request
C22_Witness ==
    /\ ui.pc = "idle"
    /\ ui.summary.notified = "invalid"
    /\ ui.summary.requests = <<>>
    /\ ui.summary.report = "none"

\* a run of the summary for a valid range against answers d ended with r:
\* the fallback was entered exactly on 404, and any other status that is
\* not 200 was notified with the status, without fallback and report
FallsBackOn404(d, r) ==
    /\ FellBack(r) <=> d.compare = "404"
    /\ d.compare \notin {"200", "404", "raise"} =>
          /\ r.notified = "failed"
          /\ r.status = d.compare
          /\ r.requests = <<"compare">>
          /\ r.report = "none"

\* C23: the fallback path of a change summary is entered if and only if the
\* comparison request is answered with 404; any other status that is not
\* 2xx ends the summary with an error that carries the status, without a
\* fallback and without a report
C23_FallbackOnlyOn404 ==
    [][ /\ (ui.pc = "diff" /\ ui'.pc # "diff"
             /\ LongEnough(ui.old_sha) /\ LongEnough(ui.new_sha))
              => FallsBackOn404(github[ui.repo].diff, ui'.summary)
        /\ (upd.pc = "diff" /\ upd'.pc # "diff"
             /\ LongEnough(upd.old_sha) /\ LongEnough(SplitWS(upd.comment)[4]))
              => FallsBackOn404(github[upd.repo].diff, upd'.summary)
      ]_vars

\* a summary has ended as a hard failure on a status other than 404
C23_Witness ==
    /\ ui.pc = "idle"
    /\ ui.summary.notified = "failed"
    /\ ui.summary.status = "500"
    /\ ui.summary.requests = <<"compare">>

\* the fallback path of a run ended in an error
FallbackFailed(r) == FellBack(r) /\ r.report = "none"

\* C24: an error on the fallback path of a change summary leaves the
\* summary as a notification and not as an exception, and the single update
\* that called the summary goes on to replace the entry and to save the
\* store
C24_FallbackErrorIsNotFatal ==
    [][ /\ (ui.pc = "diff" /\ ui'.pc # "diff" /\ FallbackFailed(ui'.summary))
              => (~ui'.summary.raised /\ ui'.summary.notified # "none"
                  /\ ui'.pc = "idle")
        /\ (upd.pc = "diff" /\ upd'.pc # "diff" /\ FallbackFailed(upd'.summary))
              => /\ ~upd'.summary.raised
                 /\ upd'.summary.notified # "none"
                 /\ upd.idx <= Len(config) =>
                       /\ upd'.pc = "save"
                       /\ config'[upd.idx] = FetchedEntry(upd.repo)
      ]_vars

\* a single update whose summary failed on the fallback path has completed:
\* the entry is replaced in the store and in the document
C24_Witness ==
    /\ upd.pc = "done"
    /\ upd.ok
    /\ FallbackFailed(upd.summary)
    /\ ~disk.torn
    /\ FetchedEntry(upd.repo) \in EntriesOf(config)
    /\ FetchedEntry(upd.repo) \in EntriesOf(LoadConfig(disk))

\* ---- properties of the document ----------------------------------------------

\* the list that the save_config about to complete was given
SavedList ==
    { r.snap : r \in { x \in {[pc |-> ui.pc, snap |-> ui.snap],
                               [pc |-> upd.pc, snap |-> upd.snap],
                               [pc |-> ua.pc, snap |-> ua.snap]} : x.pc = "write" } }

\* C25: loading a document that a save has written yields the sequence of
\* entries that was saved, with the same coordinates in the same order and
\* the same annotations and digests; and loading without a file yields the
\* empty sequence and no error
C25_SaveLoadRoundTrip ==
    /\ [](Loads(Dumps(config)) = config)
    /\ [][ /\ (disk' # disk /\ ~disk'.torn)
                  => (disk'.exists /\ LoadConfig(disk') \in SavedList)
           /\ (ui.pc = "load" /\ ui'.pc # "load" /\ ~disk.exists)
                  => (ui'.pc = "idle" /\ config' = <<>>)
         ]_vars

\* an update-all has saved a store of two entries, one of them with an asset
\* without a digest, and the document loads back as that store
C25_Witness ==
    /\ ua.pc = "done"
    /\ Len(config) = 2
    /\ \E k \in 1..Len(config) : \E n \in DOMAIN config[k].assets :
          config[k].assets[n] = None
    /\ disk.exists /\ ~disk.torn
    /\ LoadConfig(disk) = config

\* ---- C26 ------------------------------------------------------------------

\* the chunks, joined in the order they arrived
RECURSIVE Joined(_)
Joined(chunks) == IF chunks = <<>> THEN <<>> ELSE Head(chunks) \o Joined(Tail(chunks))

\* the accumulator after each chunk was folded in once, in arrival order
RECURSIVE Folded(_, _)
Folded(acc, chunks) ==
    IF chunks = <<>> THEN acc ELSE Folded(Sha256Update(acc, Head(chunks)), Tail(chunks))

\* the digest of a byte sequence absorbed in one piece
DigestOf(content) == Sha256Hexdigest(Sha256Update(Sha256New, content))

\* C26: while the body is read the accumulator holds every chunk handed out so
\* far, folded in once and in arrival order, and the chunks handed out and the
\* unread rest make up the body; a digest is returned only when the stream is
\* exhausted, and it is the digest of the whole body, whatever the chunks were.
C26_DigestIndependentOfChunking ==
    /\ hashing.pc \in {"reading", "returned"} =>
          /\ sha256 = Folded(Sha256New, hashing.chunks)
          /\ Joined(hashing.chunks) \o resp.body = hashing.content
    /\ hashing.pc = "returned" =>
          /\ resp.body = <<>>
          /\ hashing.result = DigestOf(hashing.content)

\* a digest was returned for a body that arrived in more than one chunk, one
\* of them ending inside a block
C26_Witness ==
    /\ hashing.pc = "returned"
    /\ Len(hashing.chunks) > 1
    /\ Len(hashing.chunks[1]) % BlockSize # 0
    /\ hashing.result = DigestOf(hashing.content)

\* ---- C27 ------------------------------------------------------------------

\* pass p takes a step: it starts, counts an item, moves on or finishes
PassStepped(p) == pass'[p].pc # pass[p].pc \/ pass'[p].i # pass[p].i

\* C27: no step of a reconciliation pass changes the in-memory collection or
\* the persisted document, whatever the pass finds and whichever items fail.
C27_PassLeavesStore ==
    [][\A p \in Passes : PassStepped(p) => (config' = config /\ disk' = disk)]_vars

\* a pass requested by the user has finished with an item that failed, and the
\* store and the document are as they were when the run started
C27_Witness ==
    \E p \in Passes :
       /\ passfinal[p].done
       /\ pass[p].gen > 1
       /\ pass[p].error_count > 0
       /\ Len(config) = NumRepos
       /\ config = passfinal[p].store
       /\ disk = Doc(config)
       /\ ops = 1

\* ---- C28 ------------------------------------------------------------------

\* C28: a request carries an Authorization header if and only if a credential
\* is configured; without a credential it carries no Authorization header.
C28_AuthorizationIffCredential ==
    hashing.pc # "off" =>
       ("Authorization" \in DOMAIN hashing.headers <=> Truthy(hashing.token))

\* ---- C29 ------------------------------------------------------------------

\* the single update stores what it fetched
UpdWrote == upd.pc \in {"fetch", "diff"} /\ upd'.pc = "save"

\* update-all stores what it fetched for one item
UaWrote == ua.pc = "fetch" /\ ua'.update_count > ua.update_count

\* the step changes no entry but that of the coordinate, and every coordinate
\* of the store is still in the store
WritesOnlyEntryOf(repo) ==
    /\ Len(config') = Len(config)
    /\ \A j \in 1..Len(config) : config'[j] # config[j] => config[j].repo = repo
    /\ \A j \in 1..Len(config) : \E k \in 1..Len(config') : config'[k].repo = config[j].repo

\* C29: the step in which an update or update-all stores a fetched result
\* changes only the entry of the coordinate the result was fetched for, also
\* when a remove, add or refresh changed the collection during the fetch; no
\* other entry is overwritten and no coordinate leaves the store.
C29_UpdateWritesOwnEntry ==
    [][/\ UpdWrote => WritesOnlyEntryOf(upd.repo)
       /\ UaWrote => WritesOnlyEntryOf(ua.repo)]_vars

\* ---- C30 ------------------------------------------------------------------

\* C30: every record of the drift set, whether a pass or view-diff created it,
\* has an old_sha and a new_sha that are different commits: they are not equal
\* when case is ignored and neither is a prefix of the other.
C30_DriftRecordsDiffer ==
    \A repo \in DOMAIN outdated_repos :
       ~SameCommit(outdated_repos[repo].old_sha, outdated_repos[repo].new_sha)

\* ---- C31 ------------------------------------------------------------------

\* the items pass p classified as outdated
OutdatedBy(p) == { l.repo : l \in { x \in Counted(p) : x.class = "outdated" } }

\* C31: when the startup pass and a pass started by the user have both been
\* started, then at the moment either of them finishes the drift set holds
\* exactly the records of the items that pass classified as outdated, and the
\* outdated count it reports is the number of records in the set.
C31_OverlappingPassesReportOwnRecords ==
    \A p \in Passes :
       (passfinal[p].done /\ epoch >= 2) =>
          /\ DOMAIN passfinal[p].records = OutdatedBy(p)
          /\ Cardinality(DOMAIN passfinal[p].records) = pass[p].outdated_count

\* ---- C32 ------------------------------------------------------------------

\* the entry at position j keeps every digest it has recorded
DigestsKept(j) ==
    (j <= Len(config') /\ config'[j].repo = config[j].repo) =>
       \A a \in DOMAIN config[j].assets :
          config[j].assets[a] # None =>
             /\ a \in DOMAIN config'[j].assets
             /\ config'[j].assets[a] # None

\* C32: the step in which an update or update-all stores what it fetched never
\* replaces a recorded digest by null and never drops it from the asset map,
\* also when the asset's download or the release request failed.
C32_RecordedDigestNeverLost ==
    [][(UpdWrote \/ UaWrote) => \A j \in 1..Len(config) : DigestsKept(j)]_vars

\* ---- C33 ------------------------------------------------------------------

\* C33: a download answered with a status other than 200, or whose stream
\* breaks before it is exhausted, raises and has no digest: a digest is
\* returned only for a 200 response read to its end, and what the caller
\* records for a failed download is None, never the digest of the bytes that
\* had arrived.
C33_FailedDownloadHasNoDigest ==
    /\ (hashing.pc # "off" /\ resp.status # 200) =>
          hashing.pc \in {"request", "raised", "recorded"}
    /\ hashing.pc = "returned" => (~hashing.raised /\ resp.body = <<>>)
    /\ hashing.raised => hashing.result = None
    /\ hashing.pc = "recorded" =>
          IF hashing.raised \/ resp.status # 200 \/ resp.body # <<>>
          THEN hashing.raised /\ hashing.observed = None
          ELSE hashing.observed = hashing.result

\* the stream broke after a chunk had been folded in, and the caller recorded
\* no digest
C33_Witness ==
    /\ hashing.pc = "recorded"
    /\ hashing.raised
    /\ hashing.chunks # <<>>
    /\ resp.body # <<>>
    /\ hashing.observed = None

\* ---- C34 ------------------------------------------------------------------

\* the fetch of the single update has returned an annotation
UpdFetchReturned ==
    upd.pc = "fetch" /\ upd'.pc # "fetch" /\ ~FetchReleaseAssets(upd.repo).raised

\* the commit sha stored for the item being updated, and the one just fetched
StoredSha == ExtractSha(upd.old_comment)
FetchedSha == github[upd.repo].sha

\* C34: when the fetch of a single update returns, a change summary is
\* requested only if the stored and the fetched commit sha are both present
\* and differ, and it is requested whenever they are present and name
\* different commits.
C34_SummaryIffShaChanged ==
    [][UpdFetchReturned =>
          /\ upd'.pc = "diff" =>
                (Truthy(StoredSha) /\ Truthy(FetchedSha) /\ StoredSha # FetchedSha)
          /\ (Truthy(StoredSha) /\ Truthy(FetchedSha) /\ ~SameCommit(StoredSha, FetchedSha))
                => upd'.pc = "diff"]_vars

\* ---- C35 ------------------------------------------------------------------

\* the fallback had the old commit and its lines in the report when the
\* request for the new commit failed
FailedAfterOldCommit(s) ==
    /\ Len(s.requests) >= 2
    /\ s.requests[Len(s.requests)] = "new"
    /\ s.notified \in {"new commit", "exception"}

\* C35: a fallback summary that fails after part of the report was assembled
\* ends by showing the report assembled so far.
C35_PartialReportDelivered ==
    /\ FailedAfterOldCommit(ui.summary) => ui.summary.report # "none"
    /\ FailedAfterOldCommit(upd.summary) => upd.summary.report # "none"

\* ---- C36 ------------------------------------------------------------------

\* the requests of one update in the order metadata, branch tip, latest
\* release, downloads
RequestOrder ==
    <<Req("repo", 0), Req("branch", 0), Req("release", 0)>>
        \o [k \in 1..Len(fetching.assets) |-> Req("asset", k)]

\* C36: the requests of one item's update are sent in the order repository
\* metadata, branch tip, latest release, asset downloads, and each is sent
\* only after the response to the one before it was received: sends and
\* responses alternate and at most one request is on the wire.
C36_RequestsStrictlySequential ==
    /\ Cardinality(fetching.wire) <= 1
    /\ \A i \in 1..Len(fetching.log) :
          /\ fetching.log[i][1] = (IF i % 2 = 1 THEN "send" ELSE "recv")
          /\ (i + 1) \div 2 <= Len(RequestOrder)
          /\ fetching.log[i][2] = RequestOrder[(i + 1) \div 2]

\* a fetch returned after the metadata, the branch, the release and two
\* downloads, one of which failed
C36_Witness ==
    /\ fetching.pc = "returned"
    /\ Len(fetching.hashes) = 2
    /\ fetching.hashes[1] = None
    /\ Len(fetching.log) = 10

\* ---- C37 ------------------------------------------------------------------

\* the number of assets of the item whose observed digest is not the recorded one
MismatchesOf(i) ==
    IF HasAssets(i)
    THEN Cardinality({ k \in 1..Len(upstream[i].assets) :
                          Recorded(i, k) # None /\ Observed(i, k) # Recorded(i, k) })
    ELSE 0

RECURSIVE InConfigOrder(_)
\* the results of the items that can be processed, in the order of config.json
InConfigOrder(k) ==
    IF k > NumItems THEN <<>>
    ELSE IF k \in Entries /\ ~ItemFails(k)
    THEN <<Result(k, MismatchesOf(k))>> \o InConfigOrder(k + 1)
    ELSE InConfigOrder(k + 1)

\* C37: when main exits, the set of results, the processed count, the
\* mismatch count, the star and download totals and the exit status are those
\* of the items taken in the order of config.json, in whichever order the
\* tasks completed.
C37_AggregateIndependentOfOrder ==
    mainpc = "exited" =>
       LET canon == InConfigOrder(1)
       IN  /\ { jsons[k] : k \in 1..Len(jsons) } = { canon[k] : k \in 1..Len(canon) }
           /\ Len(jsons) = Len(canon)
           /\ processed_count = Len(canon)
           /\ mismatch_count = Total(canon, "mismatched_hashes")
           /\ Total(jsons, "stars") = Total(canon, "stars")
           /\ Total(jsons, "total_downloads") = Total(canon, "total_downloads")
           /\ (exit_code = 1) <=>
                 (\E i \in Entries : ItemFails(i) \/ MismatchesOf(i) > 0)
           /\ exit_code \in {0, 1}

\* main has exited after two items were processed, the second of config.json
\* completing first, with different stars
C37_Witness ==
    /\ mainpc = "exited"
    /\ Len(jsons) = 2
    /\ jsons[1].full_name > jsons[2].full_name
    /\ jsons[1].stars # jsons[2].stars

\* ---- C38 ------------------------------------------------------------------

\* C38: the worker that the confirmation starts updates the coordinate the
\* dialog named, also when entries were added or removed while the dialog
\* was open.
C38_ConfirmedItemIsNamedItem ==
    [][(upd.pc = "dialog" /\ upd'.pc # "dialog") => upd'.repo = upd.named]_vars

\* ---- C39 ------------------------------------------------------------------

\* the store without the entry at position idx, the others in their order
OthersKept(idx) ==
    /\ Len(config') = Len(config) - 1
    /\ \A k \in 1..Len(config') : config'[k] = (IF k < idx THEN config[k] ELSE config[k + 1])

\* C39: a remove deletes the entry at the selected position and leaves the
\* other entries and their order as they were; with no item selected (index
\* 0) or a position outside the store, the store is not changed and no save
\* is started.
C39_RemoveDeletesSelectedOnly ==
    [][\A index \in 0..(Len(config) + 1) :
          RemoveRepo(index) =>
             IF index \in 1..Len(config)
             THEN OthersKept(index)
             ELSE config' = config /\ disk' = disk /\ ui'.pc = "idle"]_vars

\* ---- C40 ------------------------------------------------------------------

\* every entry of the config has acquired a unit of the semaphore
AllAdmitted == \A i \in Items : upstream[i] # NoEntry => acquired[i] >= 1

PoolProgress ==
    /\ Cardinality(InFlight \ Range(queued)) <= PoolLimit
    /\ queued # <<>> => Cardinality(InFlight \ Range(queued)) = PoolLimit

\* a request has waited for a connection and the run has finished
PoolDrained == mainpc = "exited" /\ Len(jsons) = 1 /\ Cardinality(DOMAIN downloads[1]) = NumPooled

====
